---- MODULE Spec2Model ----
(***************************************************************************)
(* A model of tiggoins/nodeport-allocator: the BitSet, the ConfigMap       *)
(* storage, the per-range allocator, the range-selection policy, the       *)
(* per-Service allocation transaction, the startup scan, the admission     *)
(* mutator and the Service reconciler.                                     *)
(***************************************************************************)
EXTENDS Integers, Sequences, FiniteSets, TLC

\* ------------------------------------------------------------------ bounds

\* Number of Service names the cluster's users work with.
NumServices == 2

\* Longest spec.ports list of a submitted Service.
MaxPorts == 2

\* Admission requests the users submit in one run.
MaxRequests == 2

\* API calls the API server may answer with an error other than a conflict.
MaxFaults == 1

\* ------------------------------------------------------- program constants

\* pkg/utils/bitset.go: const bitsPerWord = 64
bitsPerWord == 64

\* encoding/json decodes a number held in an interface{} into a float64,
\* which has 53 significant bits (FromJSON: v.(float64)).
float64Precision == 53

Services == 1..NumServices

Replicas == {"r1", "r2"}

Min(S) == CHOOSE x \in S : \A y \in S : x <= y

Max(S) == CHOOSE x \in S : \A y \in S : x >= y

\* ------------------------------------------------------------------ BitSet
\* A BitSet is [bits, size, offset]; bits is the []uint64, each word held as
\* the set of its one-bits' indices (bit 0 is the least significant).

NilBitSet == [bits |-> << >>, size |-> 0, offset |-> 0]

NewBitSet(start, end) ==
    LET size == end - start + 1
        wordsNeeded == (size + bitsPerWord - 1) \div bitsPerWord
    IN [bits |-> [w \in 1..wordsNeeded |-> {}], size |-> size, offset |-> start]

\* The bounds check shared by Set, Clear and Test.
OutOfDomain(bs, port) == port < bs.offset \/ port >= bs.offset + bs.size

WordIndex(bs, port) == ((port - bs.offset) \div bitsPerWord) + 1

BitIndex(bs, port) == (port - bs.offset) % bitsPerWord

\* Set returns an error (and changes nothing) for a port out of the domain.
Set(bs, port) ==
    IF OutOfDomain(bs, port) THEN bs
    ELSE [bs EXCEPT !.bits[WordIndex(bs, port)] = @ \cup {BitIndex(bs, port)}]

\* A Clear that leaves the bit as it is.
ClearNothing(bs, port) == bs

Clear(bs, port) ==
    IF OutOfDomain(bs, port) THEN bs
    ELSE [bs EXCEPT !.bits[WordIndex(bs, port)] = @ \ {BitIndex(bs, port)}]

TestNever(bs, port) == FALSE

Test(bs, port) ==
    /\ ~OutOfDomain(bs, port)
    /\ BitIndex(bs, port) \in bs.bits[WordIndex(bs, port)]

FindLastClear(bs) ==
    LET cand == UNION {{bs.offset + (w - 1) * bitsPerWord + b :
                           b \in (0..(bitsPerWord - 1)) \ bs.bits[w]} : w \in DOMAIN bs.bits}
        ok == {p \in cand : p < bs.offset + bs.size}
    IN IF ok = {} THEN [port |-> 0, found |-> FALSE]
       ELSE [port |-> Max(ok), found |-> TRUE]

\* Words in order, bits from low to high; a clear bit past the size is skipped.
FindFirstClear(bs) ==
    LET cand == UNION {{bs.offset + (w - 1) * bitsPerWord + b :
                           b \in (0..(bitsPerWord - 1)) \ bs.bits[w]} : w \in DOMAIN bs.bits}
        ok == {p \in cand : p < bs.offset + bs.size}
    IN IF ok = {} THEN [port |-> 0, found |-> FALSE]
       ELSE [port |-> Min(ok), found |-> TRUE]

RECURSIVE SumCard(_)
SumCard(ws) == IF ws = << >> THEN 0 ELSE Cardinality(Head(ws)) + SumCard(Tail(ws))

Count(bs) == SumCard(bs.bits)

\* ------------------------------------------------------- JSON (de)serialize
\* A blob is the JSON document {bits, size, offset}; json.Marshal writes each
\* uint64 as its exact decimal number.

NoBlob == [present |-> FALSE, bits |-> << >>, size |-> 0, offset |-> 0]

ToJSON(bs) == [present |-> TRUE, bits |-> bs.bits, size |-> bs.size, offset |-> bs.offset]

\* The float64 nearest to the integer whose one-bits are w (round half to
\* even); the result may be 2^64, written {64}.
Float64Of(w) ==
    IF w = {} THEN {}
    ELSE LET hi == Max(w) IN
         IF hi < float64Precision THEN w
         ELSE LET shift  == hi - (float64Precision - 1)
                  kept   == {b \in w : b >= shift}
                  half   == (shift - 1) \in w
                  sticky == \E b \in w : b < shift - 1
                  odd    == shift \in w
                  j      == Min({k \in shift..(hi + 1) : k \notin kept})
              IN IF half /\ (sticky \/ odd)
                 THEN {b \in kept : b > j} \cup {j}
                 ELSE kept

\* uint64(f): exact when f fits; for f = 2^64 the Go conversion is
\* implementation-dependent (1<<63 on amd64, all ones on arm64).
Uint64Of(f) ==
    IF bitsPerWord \in f THEN {{bitsPerWord - 1}, 0..(bitsPerWord - 1)}
    ELSE {f}

RECURSIVE DecodeWords(_)
DecodeWords(ws) ==
    IF ws = << >> THEN {<< >>}
    ELSE {<<h>> \o t : h \in Uint64Of(Float64Of(Head(ws))), t \in DecodeWords(Tail(ws))}

\* FromJSON overwrites bits, size and offset with the decoded ones; the set
\* holds every BitSet the decoding can produce.
FromJSON(blob) ==
    {[bits |-> ws, size |-> blob.size, offset |-> blob.offset] : ws \in DecodeWords(blob.bits)}

\* ------------------------------------------------------------------ policy
\* config.PortRanges is a Go map: its iteration order is not fixed, so "the
\* first match" is any match. Labels are sets of <<key, value>> pairs.

GetPortRangeForNamespace(c, namespace) ==
    LET hit == {n \in DOMAIN c.PortRanges :
                   \E i \in DOMAIN c.PortRanges[n].Namespaces :
                       \/ c.PortRanges[n].Namespaces[i] = namespace
                       \/ c.PortRanges[n].Namespaces[i] = "*"}
    IN IF hit # {} THEN hit
       ELSE IF c.DefaultRange \in DOMAIN c.PortRanges THEN {c.DefaultRange}
       ELSE {}

\* A resolver without the label step.
NamespaceOnly(c, namespace, labels) == GetPortRangeForNamespace(c, namespace)

GetPortRangeForService(c, namespace, labels) ==
    LET hit == {n \in DOMAIN c.PortRanges :
                   /\ c.PortRanges[n].Labels # {}
                   /\ c.PortRanges[n].Labels \subseteq labels}
    IN IF hit # {} THEN hit ELSE GetPortRangeForNamespace(c, namespace)

\* namespace == "" is read as "default".
Namespace(obj) == IF obj.ns = "" THEN "default" ELSE obj.ns

Outside(pr, port) == port < pr.Start \/ port > pr.End


\* ------------------------------------------------------------ configuration
\* The configurations the model runs under: the development range of the
\* README (two ports wide here) bound to namespace dev, and a default range
\* wide enough (54 ports) for one word of its BitSet to need 54 bits.

DevConfig(allow) ==
    [PortRanges |->
        [dev     |-> [Start |-> 30000, End |-> 30001,
                      Namespaces |-> <<"dev">>, Labels |-> {}],
         default |-> [Start |-> 30010, End |-> 30063,
                      Namespaces |-> << >>, Labels |-> {}]],
     DefaultRange |-> "default",
     AllowOutsideRangePorts |-> allow]

Configs == {DevConfig(a) : a \in BOOLEAN}

\* nodePort values a submitted Service may carry: 0 (allocate one), the ports
\* of the dev range, and 30005, in no range.
PortChoices == {0, 30000, 30001, 30005}

RECURSIVE SeqsUpTo(_, _)
SeqsUpTo(S, n) ==
    IF n = 0 THEN {<< >>}
    ELSE LET shorter == SeqsUpTo(S, n - 1)
         IN shorter \cup {Append(q, x) : q \in {r \in shorter : Len(r) = n - 1}, x \in S}

NoObj == [ns |-> "", labels |-> {}, type |-> "", ports |-> << >>]

\* The Service objects users submit: one port entry of any choice, or more,
\* the first port then to be allocated.
ObjChoices ==
    {[ns |-> "dev", labels |-> {}, type |-> "NodePort", ports |-> ps] :
        ps \in {q \in SeqsUpTo(PortChoices, MaxPorts) \ {<< >>} :
                    Len(q) = 1 \/ q[1] = 0}}
    \cup {[ns |-> "dev", labels |-> {}, type |-> "ClusterIP", ports |-> <<0>>]}

\* Services that may exist in the cluster before the allocator first starts.
NoSvc == [exists |-> FALSE, ns |-> "", labels |-> {}, type |-> "", ports |-> << >>,
          deleting |-> FALSE, fin |-> FALSE]

Live(obj) == [exists |-> TRUE, ns |-> obj.ns, labels |-> obj.labels, type |-> obj.type,
              ports |-> obj.ports, deleting |-> FALSE, fin |-> FALSE]

InitialClusters ==
    {[s \in Services |-> IF s = 1 /\ o.type # "" THEN Live(o) ELSE NoSvc] :
        o \in {NoObj,
               [ns |-> "dev", labels |-> {}, type |-> "NodePort", ports |-> <<30000>>],
               [ns |-> "default", labels |-> {}, type |-> "NodePort",
                ports |-> <<30010, 30063>>]}}

\* ------------------------------------------------------------------- state

VARIABLES
    config,       \* the loaded Config, fixed after startup
    faults,       \* API calls answered with an error so far (not a conflict)
    up,           \* the replicas deployed
    cm,           \* the ConfigMap: [exists, Data: range name -> blob]
    stale,        \* threads whose last Get of the ConfigMap has been overwritten
    svc,          \* the cluster's Service objects
    queue,        \* per replica: the reconciler's work queue (Service keys)
    bitSet,       \* per replica and range: PortRange.bitSet
    lock,         \* per replica and range: PortRange.mutex is write-held
    main,         \* per replica: the main goroutine (Initialize, scan, serve)
    adm,          \* per Service name: the admission request in flight
    rec,          \* per replica: the reconciler worker
    requests,     \* admission requests submitted so far
    holds,        \* per Service: <<range, port>> pairs AllocateForService gave it
    outstanding,  \* per replica and range: ports AllocatePort returned, not released
    dupAlloc,     \* a successful AllocatePort returned an outstanding port
    orphaned      \* <<range, port>> pairs of deleted Services, not given out again

vars == <<config, faults, up, cm, stale, svc, queue, bitSet, lock, main, adm, rec,
          requests, holds, outstanding, dupAlloc, orphaned>>

RangeNames == DOMAIN config.PortRanges

IdleAdm ==
    [pc |-> "idle", rep |-> "r1", op |-> "", obj |-> NoObj, rangeName |-> "",
     i |-> 0, results |-> << >>, port |-> 0, found |-> FALSE, j |-> 0,
     err |-> "", allowed |-> FALSE, rbFailed |-> FALSE, conc |-> {}, cancelled |-> FALSE]

IdleRec ==
    [pc |-> "off", key |-> 0, obj |-> NoSvc, rangeName |-> "", k |-> 0,
     port |-> 0, found |-> FALSE, failed |-> FALSE]

IdleMain ==
    [pc |-> "init", enableLeaderElection |-> FALSE, list |-> << >>, idx |-> 0, k |-> 0,
     rangeName |-> "", port |-> 0, found |-> FALSE]

\* ----------------------------------------------------------------- storage

EmptyData == [n \in RangeNames |-> NoBlob]

\* LoadBitSet: no ConfigMap, or no entry for the range: a new BitSet; else
\* whatever FromJSON decodes (a decoding error cannot arise from a blob that
\* ToJSON wrote).
LoadBitSet(c, rangeName, start, end) ==
    IF ~c.exists THEN {NewBitSet(start, end)}
    ELSE IF ~c.Data[rangeName].present THEN {NewBitSet(start, end)}
    ELSE FromJSON(c.Data[rangeName])

\* Threads that hold a ConfigMap read by getConfigMap and have yet to write.
Readers ==
    {<<"adm", s>> : s \in {x \in Services : adm[x].pc \in {"save", "rbsave"}}}
    \cup {<<"rec", r>> : r \in {x \in Replicas : rec[x].pc = "relsave"}}
    \cup {<<"main", r>> : r \in {x \in Replicas : main[x].pc = "scsave"}}

\* saveBitSetOnce after its getConfigMap: Update of the object read (refused
\* when the object changed since: a conflict) or, when none was found,
\* createConfigMap (refused when one exists by now). UpdateObject and
\* CreateObject run one attempt, and the error they return is wrapped with
\* %v, so SaveBitSet's RetryOnConflict never sees a conflict: one attempt.
CanWrite(t, found) ==
    IF found THEN cm.exists /\ t \notin stale ELSE ~cm.exists

\* A write that stores the range's entry and no other.
WrittenAlone(found, rangeName, bs) ==
    [exists |-> TRUE, Data |-> [EmptyData EXCEPT ![rangeName] = ToJSON(bs)]]

Written(found, rangeName, bs) ==
    IF found THEN [cm EXCEPT !.Data[rangeName] = ToJSON(bs)]
    ELSE [exists |-> TRUE, Data |-> [EmptyData EXCEPT ![rangeName] = ToJSON(bs)]]

\* The outcomes of the write: TRUE (written) or FALSE (an error).
SaveOutcomes(t, found) ==
    IF CanWrite(t, found) THEN (IF faults < MaxFaults THEN {TRUE, FALSE} ELSE {TRUE})
    ELSE {FALSE}

\* An error that was not a conflict is one more fault of the API server.
Charged(t, found, ok) ==
    faults' = IF ok \/ ~CanWrite(t, found) THEN faults ELSE faults + 1


\* --------------------------------------------------------------- PortRange

IsPortUsed(bs, port) == Test(bs, port)

\* Bookkeeping of what AllocatePort returned and ReleasePort took back.
Returned(rep, rangeName, port) ==
    /\ dupAlloc' = (dupAlloc \/ port \in outstanding[rep][rangeName])
    /\ outstanding' = [outstanding EXCEPT ![rep][rangeName] = @ \cup {port}]

Released(rep, rangeName, port) ==
    /\ outstanding' = [outstanding EXCEPT ![rep][rangeName] = @ \ {port}]
    /\ UNCHANGED dupAlloc

\* ------------------------------------------------- Mutator and Allocator

Range(q) == {q[i] : i \in DOMAIN q}

Pairs(results) == {<<r.RangeName, r.AllocatedPort>> : r \in Range(results)}

\* A ValidatePortForService that accepts every port.
ValidateAlways(c, namespace, labels, port) == {TRUE}

\* ValidatePortForService: the answers it can give (TRUE: no error).
ValidatePortForService(c, namespace, labels, port) ==
    LET ranges == GetPortRangeForService(c, namespace, labels)
    IN IF ranges = {} THEN {FALSE}
       ELSE {~(Outside(c.PortRanges[rn], port) /\ ~c.AllowOutsideRangePorts) : rn \in ranges}

\* handlePortValidation: the verdicts it can reach over the ports in order.
handlePortValidation(c, obj) ==
    LET set == {i \in DOMAIN obj.ports : obj.ports[i] # 0}
        ans(i) == ValidatePortForService(c, Namespace(obj), obj.labels, obj.ports[i])
    IN {TRUE : x \in {y \in {0} : \A i \in set : TRUE \in ans(i)}}
       \cup {FALSE : x \in {y \in {0} : \E i \in set : FALSE \in ans(i)}}

\* A handlePortAllocation that builds no patch.
PatchesNone(t) == {}

\* handlePortAllocation: one replace patch per result whose submitted
\* nodePort was 0, at /spec/ports/<PortIndex>/nodePort.
Patches(t) ==
    {<<r.PortIndex, r.AllocatedPort>> :
        r \in {x \in Range(t.results) : t.obj.ports[x.PortIndex + 1] = 0}}

\* Handle's answer: Allow() with the patches and one warning per result
\* (its message names the port and the range), or Deny(message): Allowed
\* false, Result.Code 403, no patch.
Response(t) ==
    IF t.allowed
    THEN [Allowed |-> TRUE, Code |-> 0, Patch |-> Patches(t),
          Warnings |-> [k \in DOMAIN t.results |->
                           <<t.results[k].AllocatedPort, t.results[k].RangeName>>]]
    ELSE [Allowed |-> FALSE, Code |-> 403, Patch |-> {}, Warnings |-> << >>]

\* The API server applies the patches of the answer to the object submitted.
Patched(t) ==
    LET patch == Response(t).Patch IN
    [i \in DOMAIN t.obj.ports |->
        IF \E pt \in patch : pt[1] = i - 1
        THEN (CHOOSE pt \in patch : pt[1] = i - 1)[2]
        ELSE t.obj.ports[i]]

\* AllocateForService returns its results: every entry was processed.
Succeed(t) == [t EXCEPT !.pc = "done", !.allowed = TRUE]

\* AllocateForService returns an error straight away (no rollback).
Fail(t, err) == [t EXCEPT !.pc = "done", !.allowed = FALSE, !.err = err]

\* AllocateForService after AllocatePort failed: rollbackAllocations(results),
\* then the error.
StartRollback(t, err) ==
    IF t.results = << >> THEN Fail(t, err)
    ELSE [t EXCEPT !.pc = "rollback", !.j = 1, !.err = err, !.port = 0, !.found = FALSE]

\* The loop goes on to the next port entry, or ends.
NextEntry(t) ==
    IF t.i + 1 > Len(t.obj.ports) THEN Succeed([t EXCEPT !.i = t.i + 1])
    ELSE [t EXCEPT !.pc = "entry", !.i = t.i + 1, !.port = 0, !.found = FALSE]

\* rollbackAllocations goes on to the next result, or ends.
NextRollback(t) ==
    IF t.j + 1 > Len(t.results) THEN [t EXCEPT !.pc = "done", !.allowed = FALSE]
    ELSE [t EXCEPT !.pc = "rollback", !.j = t.j + 1, !.port = 0, !.found = FALSE]

\* Every replica whose reconciler runs learns of a change to Service s.
Notify(s) ==
    queue' = [r \in Replicas |-> IF rec[r].pc # "off" THEN queue[r] \cup {s} ELSE queue[r]]

\* The handler goes from adm[s] to t. When t is the end of the call, Handle
\* answers and the API server acts on the answer: an admitted object is
\* stored with the patches applied, a denied one is not. The thread is idle
\* again and keeps the last operation and its answer (op, err, allowed).
Step(s, t) ==
    LET stored == IF t.op = "CREATE" THEN ~svc[s].exists
                  ELSE svc[s].exists /\ ~svc[s].deleting
    IN
    IF t.pc # "done"
    THEN /\ adm' = [adm EXCEPT ![s] = t]
         /\ UNCHANGED <<svc, queue, holds, orphaned>>
    ELSE /\ adm' = [adm EXCEPT ![s] = [IdleAdm EXCEPT !.op = t.op,
                                                     !.err = t.err, !.allowed = t.allowed,
                                                     !.conc = t.conc]]
         /\ IF t.allowed /\ stored
            THEN /\ svc' = [svc EXCEPT ![s] =
                               [Live([t.obj EXCEPT !.ports = Patched(t)])
                                   EXCEPT !.fin = svc[s].fin]]
                 /\ Notify(s)
            ELSE UNCHANGED <<svc, queue>>
         /\ IF t.allowed
            THEN /\ holds' = [holds EXCEPT ![s] = @ \cup Pairs(t.results)]
                 /\ orphaned' = orphaned \ Pairs(t.results)
            ELSE UNCHANGED <<holds, orphaned>>

\* A processService that sends every NodePort request to handlePortAllocation.
HandleAllocating(s, rep, obj, op) ==
    /\ requests < MaxRequests
    /\ adm[s].pc = "idle"
    /\ rep \in up
    /\ main[rep].pc = "serving"
    /\ IF op = "CREATE" THEN ~svc[s].exists
       ELSE /\ svc[s].exists /\ ~svc[s].deleting
            /\ obj.ns = svc[s].ns /\ obj.type = svc[s].type
    /\ LET t0 == [IdleAdm EXCEPT !.rep = rep, !.op = op, !.obj = obj]
           ranges == GetPortRangeForService(config, Namespace(obj), obj.labels)
       IN IF obj.type # "NodePort"
          THEN Step(s, Succeed(t0))
          ELSE IF ranges = {}
          THEN Step(s, Fail(t0, "NoRange"))
          ELSE \E rn \in ranges :
                  Step(s, [t0 EXCEPT !.pc = "entry", !.rangeName = rn, !.i = 1])
    /\ requests' = requests + 1
    /\ UNCHANGED <<config, faults, up, cm, stale, bitSet, lock, main, rec,
                   outstanding, dupAlloc>>

\* Handle and processService: the request (op, obj) for Service s arrives at
\* a serving replica.
Handle(s, rep, obj, op) ==
    /\ requests < MaxRequests
    /\ adm[s].pc = "idle"
    /\ rep \in up
    /\ main[rep].pc = "serving"
    /\ IF op = "CREATE" THEN ~svc[s].exists
       ELSE /\ svc[s].exists /\ ~svc[s].deleting
            /\ obj.ns = svc[s].ns /\ obj.type = svc[s].type
    /\ LET t0 == [IdleAdm EXCEPT !.rep = rep, !.op = op, !.obj = obj]
           needsAllocation == \E i \in DOMAIN obj.ports : obj.ports[i] = 0
           ranges == GetPortRangeForService(config, Namespace(obj), obj.labels)
       IN IF obj.type # "NodePort"
          THEN Step(s, Succeed(t0))
          ELSE IF needsAllocation \/ op = "CREATE"
          THEN IF ranges = {}
               THEN Step(s, Fail(t0, "NoRange"))
               ELSE \E rn \in ranges :
                       Step(s, [t0 EXCEPT !.pc = "entry", !.rangeName = rn, !.i = 1])
          ELSE \E ok \in handlePortValidation(config, obj) :
                  Step(s, IF ok THEN Succeed(t0) ELSE Fail(t0, "OutsideRange"))
    /\ requests' = requests + 1
    /\ UNCHANGED <<config, faults, up, cm, stale, bitSet, lock, main, rec,
                   outstanding, dupAlloc>>

\* A user creates or updates Service s.
Submit(s) ==
    \E rep \in Replicas, obj \in ObjChoices, op \in {"CREATE", "UPDATE"} :
        Handle(s, rep, obj, op)

\* AllocatePort has set the bit of port p and goes on to save: the calls on
\* other replicas that hold p set in the same range and have yet to return
\* overlap with this one.
Raced(s, t, p) ==
    LET others == {x \in Services \ {s} :
                      /\ adm[x].pc \in {"get", "save"} /\ adm[x].rep # t.rep
                      /\ adm[x].rangeName = t.rangeName /\ adm[x].port = p}
    IN [x \in Services |->
           IF x = s THEN [t EXCEPT !.pc = "get", !.port = p,
                                   !.conc = @ \cup {<<u, t.rangeName, p>> : u \in others}]
           ELSE IF x \in others THEN [adm[x] EXCEPT !.conc = @ \cup {<<s, t.rangeName, p>>}]
           ELSE adm[x]]

\* AllocateForService at port entry i: nodePort 0 calls AllocatePort(0), which
\* locks the range, finds the first clear bit and sets it; an explicit
\* nodePort is checked against the range and with IsPortUsed.
AllocEntry(s) ==
    LET t  == adm[s]
        rn == t.rangeName
        pr == config.PortRanges[rn]
        bs == bitSet[t.rep][rn]
        p  == t.obj.ports[t.i]
        f  == FindFirstClear(bs)
    IN
    /\ t.pc = "entry"
    /\ IF p = 0
       THEN /\ ~lock[t.rep][rn]
            /\ IF ~f.found
               THEN /\ Step(s, StartRollback(t, "RangeFull"))
                    /\ UNCHANGED <<bitSet, lock>>
               ELSE /\ bitSet' = [bitSet EXCEPT ![t.rep][rn] = Set(bs, f.port)]
                    /\ lock' = [lock EXCEPT ![t.rep][rn] = TRUE]
                    /\ adm' = Raced(s, t, f.port)
                    /\ UNCHANGED <<svc, queue, holds, orphaned>>
       ELSE IF Outside(pr, p) /\ ~config.AllowOutsideRangePorts
       THEN /\ Step(s, Fail(t, "OutsideRange"))
            /\ UNCHANGED <<bitSet, lock>>
       ELSE /\ ~lock[t.rep][rn]
            /\ Step(s, IF IsPortUsed(bs, p) THEN Fail(t, "PortInUse")
                       ELSE [t EXCEPT !.pc = "alloc", !.port = p])
            /\ UNCHANGED <<bitSet, lock>>
    /\ UNCHANGED <<config, faults, up, cm, stale, main, rec, requests,
                   outstanding, dupAlloc>>

\* AllocatePort(requestedPort) up to the bit being set, the range locked.
AllocPort(s) ==
    LET t  == adm[s]
        rn == t.rangeName
        pr == config.PortRanges[rn]
        bs == bitSet[t.rep][rn]
        p  == t.port
    IN
    /\ t.pc = "alloc"
    /\ ~lock[t.rep][rn]
    /\ IF Outside(pr, p)
       THEN /\ Step(s, StartRollback(t, "OutOfRange"))
            /\ UNCHANGED <<bitSet, lock>>
       ELSE IF Test(bs, p)
       THEN /\ Step(s, StartRollback(t, "PortInUse"))
            /\ UNCHANGED <<bitSet, lock>>
       ELSE IF OutOfDomain(bs, p)
       THEN /\ Step(s, StartRollback(t, "SetFailed"))
            /\ UNCHANGED <<bitSet, lock>>
       ELSE /\ bitSet' = [bitSet EXCEPT ![t.rep][rn] = Set(bs, p)]
            /\ lock' = [lock EXCEPT ![t.rep][rn] = TRUE]
            /\ adm' = Raced(s, t, p)
            /\ UNCHANGED <<svc, queue, holds, orphaned>>
    /\ UNCHANGED <<config, faults, up, cm, stale, main, rec, requests,
                   outstanding, dupAlloc>>

\* An AllocatePort or ReleasePort that gives up the range's mutex before its
\* store round trip.
AllocGetUnlocked(s) ==
    LET t  == adm[s]
        rn == IF t.pc = "get" THEN t.rangeName ELSE t.results[t.j].RangeName
    IN
    /\ t.pc \in {"get", "rbget"}
    /\ adm' = [adm EXCEPT ![s] = [t EXCEPT !.pc = IF t.pc = "get" THEN "save" ELSE "rbsave",
                                            !.found = cm.exists]]
    /\ stale' = stale \ {<<"adm", s>>}
    /\ lock' = [lock EXCEPT ![t.rep][rn] = FALSE]
    /\ UNCHANGED <<config, faults, up, cm, svc, queue, bitSet, main, rec, requests,
                   holds, outstanding, dupAlloc, orphaned>>

\* saveBitSetOnce: getConfigMap.
AllocGet(s) ==
    LET t == adm[s] IN
    /\ t.pc \in {"get", "rbget"}
    /\ adm' = [adm EXCEPT ![s] = [t EXCEPT !.pc = IF t.pc = "get" THEN "save" ELSE "rbsave",
                                            !.found = cm.exists]]
    /\ stale' = stale \ {<<"adm", s>>}
    /\ UNCHANGED <<config, faults, up, cm, svc, queue, bitSet, lock, main, rec, requests,
                   holds, outstanding, dupAlloc, orphaned>>

\* saveBitSetOnce: the write; AllocatePort then returns the port, or clears
\* the bit again and returns the error.
AllocSave(s) ==
    LET t  == adm[s]
        rn == t.rangeName
        me == <<"adm", s>>
    IN
    /\ t.pc = "save"
    /\ \E ok \in SaveOutcomes(me, t.found) :
        /\ Charged(me, t.found, ok)
        /\ IF ok
           THEN /\ cm' = Written(t.found, rn, bitSet[t.rep][rn])
                /\ stale' = Readers \ {me}
                /\ Returned(t.rep, rn, t.port)
                /\ Step(s, NextEntry([t EXCEPT !.results = Append(@,
                          [PortIndex |-> t.i - 1, AllocatedPort |-> t.port, RangeName |-> rn])]))
                /\ UNCHANGED bitSet
           ELSE /\ bitSet' = [bitSet EXCEPT ![t.rep][rn] = Clear(@, t.port)]
                /\ stale' = stale \ {me}
                /\ Step(s, StartRollback(t, "SaveFailed"))
                /\ UNCHANGED <<cm, outstanding, dupAlloc>>
    /\ lock' = [lock EXCEPT ![t.rep][rn] = FALSE]
    /\ UNCHANGED <<config, up, main, rec, requests>>

\* The request context is cancelled (the API server gave up on the webhook
\* call) while AllocatePort is in its store save: SaveBitSet returns the
\* context's error, AllocatePort clears the bit and returns the error, and
\* AllocateForService rolls back with the same context. The write was on its
\* way to the API server: it has been applied there, or it has not.
Cancel(s) ==
    LET t  == adm[s]
        rn == t.rangeName
        me == <<"adm", s>>
    IN
    /\ t.pc = "save"
    /\ \E applied \in {a \in BOOLEAN : a => CanWrite(me, t.found)} :
          IF applied
          THEN /\ cm' = Written(t.found, rn, bitSet[t.rep][rn])
               /\ stale' = Readers \ {me}
          ELSE /\ cm' = cm
               /\ stale' = stale \ {me}
    /\ bitSet' = [bitSet EXCEPT ![t.rep][rn] = Clear(@, t.port)]
    /\ lock' = [lock EXCEPT ![t.rep][rn] = FALSE]
    /\ Step(s, StartRollback([t EXCEPT !.cancelled = TRUE], "Cancelled"))
    /\ UNCHANGED <<config, faults, up, main, rec, requests, outstanding, dupAlloc>>

\* rollbackAllocations at result j: ReleasePort up to the bit being cleared.
AllocRollback(s) ==
    LET t  == adm[s]
        r  == t.results[t.j]
        rn == r.RangeName
        pr == config.PortRanges[rn]
        bs == bitSet[t.rep][rn]
        p  == r.AllocatedPort
    IN
    /\ t.pc = "rollback"
    /\ ~lock[t.rep][rn]
    /\ IF Outside(pr, p)
       THEN /\ Step(s, NextRollback([t EXCEPT !.rbFailed = TRUE]))
            /\ UNCHANGED <<bitSet, lock>>
       ELSE IF ~Test(bs, p)
       THEN /\ Step(s, NextRollback(t))
            /\ UNCHANGED <<bitSet, lock>>
       ELSE /\ bitSet' = [bitSet EXCEPT ![t.rep][rn] = Clear(bs, p)]
            /\ lock' = [lock EXCEPT ![t.rep][rn] = TRUE]
            /\ Step(s, [t EXCEPT !.pc = "rbget", !.port = p])
    /\ UNCHANGED <<config, faults, up, cm, stale, main, rec, requests,
                   outstanding, dupAlloc>>

\* ReleasePort's save inside rollbackAllocations; an error is logged only.
\* Under a cancelled request context every store call returns the context's
\* error and nothing is written.
AllocRbSave(s) ==
    LET t  == adm[s]
        rn == t.results[t.j].RangeName
        me == <<"adm", s>>
    IN
    /\ t.pc = "rbsave"
    /\ \E ok \in (IF t.cancelled THEN {FALSE} ELSE SaveOutcomes(me, t.found)) :
        /\ IF t.cancelled THEN UNCHANGED faults ELSE Charged(me, t.found, ok)
        /\ IF ok
           THEN /\ cm' = Written(t.found, rn, bitSet[t.rep][rn])
                /\ stale' = Readers \ {me}
                /\ Released(t.rep, rn, t.port)
                /\ Step(s, NextRollback(t))
                /\ UNCHANGED bitSet
           ELSE /\ bitSet' = [bitSet EXCEPT ![t.rep][rn] = Set(@, t.port)]
                /\ stale' = stale \ {me}
                /\ Step(s, NextRollback([t EXCEPT !.rbFailed = TRUE]))
                /\ UNCHANGED <<cm, outstanding, dupAlloc>>
    /\ lock' = [lock EXCEPT ![t.rep][rn] = FALSE]
    /\ UNCHANGED <<config, up, main, rec, requests>>

\* -------------------------------------------------------------- the users

\* A user deletes Service s: with the finalizer on it the object stays, its
\* deletion timestamp set; without, it is gone at once. The ports it held
\* (its nodePorts set in the BitSet of its range) are recorded when a
\* reconciler runs, which is then told of the deletion.
Delete(s) ==
    LET o == svc[s]
        ranges == GetPortRangeForService(config, Namespace(o), o.labels)
    IN
    /\ o.exists /\ ~o.deleting
    /\ svc' = [svc EXCEPT ![s] = IF o.fin THEN [o EXCEPT !.deleting = TRUE] ELSE NoSvc]
    /\ Notify(s)
    /\ orphaned' = orphaned \cup
          {<<rn, o.ports[i]>> : rn \in {x \in ranges : /\ o.type = "NodePort"
                                                      /\ \E r \in up : rec[r].pc # "off"},
                                i \in {y \in DOMAIN o.ports :
                                          \E x \in ranges, r \in up :
                                              Test(bitSet[r][x], o.ports[y])}}
    /\ UNCHANGED <<config, faults, up, cm, stale, bitSet, lock, main, adm, rec, requests,
                   holds, outstanding, dupAlloc>>

\* ------------------------------------------------------- main: startup

\* client.List: the Services in the cluster, in name order.
ListServices ==
    LET ids == {s \in Services : svc[s].exists}
    IN [i \in 1..Cardinality(ids) |->
           svc[CHOOSE s \in ids : Cardinality({x \in ids : x < s}) = i - 1]]

\* A main that starts serving once Initialize has returned, without the scan.
InitializeAndServe(rep) ==
    LET loads(n) == LoadBitSet(cm, n, config.PortRanges[n].Start, config.PortRanges[n].End)
        all == {f \in [RangeNames -> UNION {loads(n) : n \in RangeNames}] :
                   \A n \in RangeNames : f[n] \in loads(n)}
    IN
    /\ rep \in up
    /\ main[rep].pc = "init"
    /\ \E f \in all :
          /\ bitSet' = [bitSet EXCEPT ![rep] = f]
          /\ main' = [main EXCEPT ![rep] = [@ EXCEPT !.pc = "serving"]]
    /\ UNCHANGED <<config, faults, up, cm, stale, svc, queue, lock, adm, rec, requests,
                   holds, outstanding, dupAlloc, orphaned>>

\* Manager.Initialize: every range loads its BitSet from the ConfigMap;
\* then ScanExistingServices lists the Services. An API error ends the process.
Initialize(rep) ==
    LET loads(n) == LoadBitSet(cm, n, config.PortRanges[n].Start, config.PortRanges[n].End)
        all == {f \in [RangeNames -> UNION {loads(n) : n \in RangeNames}] :
                   \A n \in RangeNames : f[n] \in loads(n)}
    IN
    /\ rep \in up
    /\ main[rep].pc = "init"
    /\ \/ \E f \in all :
            /\ bitSet' = [bitSet EXCEPT ![rep] = f]
            /\ main' = [main EXCEPT ![rep] =
                           [@ EXCEPT !.pc = "scan", !.list = ListServices, !.idx = 1, !.k = 0]]
            /\ UNCHANGED faults
       \/ /\ faults < MaxFaults
          /\ faults' = faults + 1
          /\ main' = [main EXCEPT ![rep] = [@ EXCEPT !.pc = "exited"]]
          /\ UNCHANGED bitSet
    /\ UNCHANGED <<config, up, cm, stale, svc, queue, lock, adm, rec, requests,
                   holds, outstanding, dupAlloc, orphaned>>

\* The scan goes on to the next port of the Service, or to the next Service.
NextPort(m) ==
    IF m.k + 1 > Len(m.list[m.idx].ports)
    THEN [m EXCEPT !.pc = "scan", !.idx = m.idx + 1, !.k = 0, !.port = 0, !.found = FALSE]
    ELSE [m EXCEPT !.pc = "scan", !.k = m.k + 1, !.port = 0, !.found = FALSE]

\* ScanExistingServices at Service idx, port k (k = 0: the range is resolved);
\* MarkPortAsUsed up to the bit being set. Past the last Service the scan
\* returns nil, main registers the webhook and the manager starts. Without
\* the leader-elect flag main has registered the controller and it starts;
\* with the flag the controller is registered and started once the replica
\* holds the leases, which the first replica to ask for them gets.
Scan(rep) ==
    LET m  == main[rep]
        o  == m.list[m.idx]
        ranges == GetPortRangeForService(config, Namespace(o), o.labels)
        rn == m.rangeName
        pr == config.PortRanges[rn]
        bs == bitSet[rep][rn]
        p  == o.ports[m.k]
    IN
    /\ m.pc = "scan"
    /\ IF m.idx > Len(m.list)
       THEN /\ main' = [main EXCEPT ![rep] =
                           [IdleMain EXCEPT !.pc = "serving",
                                            !.enableLeaderElection = m.enableLeaderElection]]
            /\ IF ~m.enableLeaderElection \/ \A x \in Replicas \ {rep} : rec[x].pc = "off"
               THEN /\ rec' = [rec EXCEPT ![rep] = [IdleRec EXCEPT !.pc = "idle"]]
                    /\ queue' = [queue EXCEPT ![rep] = {s \in Services : svc[s].exists}]
               ELSE UNCHANGED <<rec, queue>>
            /\ UNCHANGED <<bitSet, lock>>
       ELSE IF o.type # "NodePort" \/ (m.k = 0 /\ ranges = {}) \/ (m.k = 0 /\ o.ports = << >>)
       THEN /\ main' = [main EXCEPT ![rep] = [m EXCEPT !.idx = m.idx + 1, !.k = 0]]
            /\ UNCHANGED <<bitSet, lock, rec, queue>>
       ELSE IF m.k = 0
       THEN /\ \E n \in ranges :
                 main' = [main EXCEPT ![rep] = [m EXCEPT !.rangeName = n, !.k = 1]]
            /\ UNCHANGED <<bitSet, lock, rec, queue>>
       ELSE IF Outside(pr, p) /\ ~config.AllowOutsideRangePorts
       THEN /\ main' = [main EXCEPT ![rep] = NextPort(m)]
            /\ UNCHANGED <<bitSet, lock, rec, queue>>
       ELSE /\ ~lock[rep][rn]
            /\ IF Outside(pr, p) \/ Test(bs, p) \/ OutOfDomain(bs, p)
               THEN /\ main' = [main EXCEPT ![rep] = NextPort(m)]
                    /\ UNCHANGED <<bitSet, lock>>
               ELSE /\ bitSet' = [bitSet EXCEPT ![rep][rn] = Set(bs, p)]
                    /\ lock' = [lock EXCEPT ![rep][rn] = TRUE]
                    /\ main' = [main EXCEPT ![rep] = [m EXCEPT !.pc = "scget", !.port = p]]
            /\ UNCHANGED <<rec, queue>>
    /\ UNCHANGED <<config, faults, up, cm, stale, svc, adm, requests,
                   holds, outstanding, dupAlloc, orphaned>>

ScanGet(rep) ==
    LET m == main[rep] IN
    /\ m.pc = "scget"
    /\ main' = [main EXCEPT ![rep] = [m EXCEPT !.pc = "scsave", !.found = cm.exists]]
    /\ stale' = stale \ {<<"main", rep>>}
    /\ UNCHANGED <<config, faults, up, cm, svc, queue, bitSet, lock, adm, rec, requests,
                   holds, outstanding, dupAlloc, orphaned>>

\* MarkPortAsUsed's save; on an error the bit is cleared again, the error is
\* logged, and the scan goes on.
ScanSave(rep) ==
    LET m  == main[rep]
        rn == m.rangeName
        me == <<"main", rep>>
    IN
    /\ m.pc = "scsave"
    /\ \E ok \in SaveOutcomes(me, m.found) :
        /\ Charged(me, m.found, ok)
        /\ IF ok
           THEN /\ cm' = Written(m.found, rn, bitSet[rep][rn])
                /\ stale' = Readers \ {me}
                /\ UNCHANGED bitSet
           ELSE /\ bitSet' = [bitSet EXCEPT ![rep][rn] = Clear(@, m.port)]
                /\ stale' = stale \ {me}
                /\ UNCHANGED cm
    /\ main' = [main EXCEPT ![rep] = NextPort(m)]
    /\ lock' = [lock EXCEPT ![rep][rn] = FALSE]
    /\ UNCHANGED <<config, up, svc, queue, adm, rec, requests,
                   holds, outstanding, dupAlloc, orphaned>>

\* ---------------------------------------------------------- the reconciler

Finished(r) == [IdleRec EXCEPT !.pc = "idle"]

\* A ReleaseForService that returns after the port it is at.
StopRelease(r) == [r EXCEPT !.pc = "unfin", !.port = 0, !.found = FALSE]

\* ReleaseForService goes on to the next port, or returns (then the
\* finalizer is dealt with).
NextRelease(r) ==
    IF r.k + 1 > Len(r.obj.ports) THEN [r EXCEPT !.pc = "unfin", !.port = 0, !.found = FALSE]
    ELSE [r EXCEPT !.pc = "release", !.k = r.k + 1, !.port = 0, !.found = FALSE]

\* Reconcile(s): Get; gone or being deleted: handleServiceDeletion; else a
\* NodePort Service without the finalizer gets it (Update).
Reconcile(rep) ==
    LET r == rec[rep] IN
    /\ r.pc = "idle"
    /\ \E s \in queue[rep] :
        LET o == svc[s]
            rest == [queue EXCEPT ![rep] = @ \ {s}]
        IN
        IF ~o.exists \/ o.deleting
        THEN /\ rec' = [rec EXCEPT ![rep] = [r EXCEPT !.pc = "hsd", !.key = s]]
             /\ queue' = rest
             /\ UNCHANGED <<svc, faults>>
        ELSE IF o.type # "NodePort" \/ o.fin
        THEN /\ queue' = rest
             /\ UNCHANGED <<svc, rec, faults>>
        ELSE \/ /\ svc' = [svc EXCEPT ![s] = [o EXCEPT !.fin = TRUE]]
                /\ queue' = [x \in Replicas |->
                                IF rec[x].pc # "off" THEN rest[x] \cup {s} ELSE rest[x]]
                /\ UNCHANGED <<rec, faults>>
             \/ /\ faults < MaxFaults
                /\ faults' = faults + 1
                /\ UNCHANGED <<svc, queue, rec>>
    /\ UNCHANGED <<config, up, cm, stale, bitSet, lock, main, adm, requests,
                   holds, outstanding, dupAlloc, orphaned>>

\* handleServiceDeletion: Get again; gone: nothing is released. Else
\* ReleaseForService resolves the range of the object read.
handleServiceDeletion(rep) ==
    LET r == rec[rep]
        o == svc[r.key]
        ranges == GetPortRangeForService(config, Namespace(o), o.labels)
    IN
    /\ r.pc = "hsd"
    /\ IF ~o.exists
       THEN rec' = [rec EXCEPT ![rep] = Finished(r)]
       ELSE IF o.type # "NodePort" \/ ranges = {} \/ o.ports = << >>
       THEN rec' = [rec EXCEPT ![rep] = [r EXCEPT !.pc = "unfin", !.obj = o]]
       ELSE \E n \in ranges :
               rec' = [rec EXCEPT ![rep] =
                          [r EXCEPT !.pc = "release", !.obj = o, !.rangeName = n, !.k = 1]]
    /\ UNCHANGED <<config, faults, up, cm, stale, svc, queue, bitSet, lock, main, adm,
                   requests, holds, outstanding, dupAlloc, orphaned>>

\* ReleaseForService at port k: ReleasePort up to the bit being cleared. An
\* error of ReleasePort is collected (failed) and the loop goes on.
Release(rep) ==
    LET r  == rec[rep]
        rn == r.rangeName
        pr == config.PortRanges[rn]
        bs == bitSet[rep][rn]
        p  == r.obj.ports[r.k]
    IN
    /\ r.pc = "release"
    /\ IF p = 0
       THEN /\ rec' = [rec EXCEPT ![rep] = NextRelease(r)]
            /\ UNCHANGED <<bitSet, lock, holds>>
       ELSE /\ ~lock[rep][rn]
            /\ IF Outside(pr, p)
               THEN /\ rec' = [rec EXCEPT ![rep] = NextRelease([r EXCEPT !.failed = TRUE])]
                    /\ UNCHANGED <<bitSet, lock, holds>>
               ELSE IF ~Test(bs, p)
               THEN /\ rec' = [rec EXCEPT ![rep] = NextRelease(r)]
                    /\ holds' = [holds EXCEPT ![r.key] = @ \ {<<rn, p>>}]
                    /\ UNCHANGED <<bitSet, lock>>
               ELSE /\ bitSet' = [bitSet EXCEPT ![rep][rn] = Clear(bs, p)]
                    /\ lock' = [lock EXCEPT ![rep][rn] = TRUE]
                    /\ rec' = [rec EXCEPT ![rep] = [r EXCEPT !.pc = "relget", !.port = p]]
                    /\ UNCHANGED holds
    /\ UNCHANGED <<config, faults, up, cm, stale, svc, queue, main, adm, requests,
                   outstanding, dupAlloc, orphaned>>

ReleaseGet(rep) ==
    LET r == rec[rep] IN
    /\ r.pc = "relget"
    /\ rec' = [rec EXCEPT ![rep] = [r EXCEPT !.pc = "relsave", !.found = cm.exists]]
    /\ stale' = stale \ {<<"rec", rep>>}
    /\ UNCHANGED <<config, faults, up, cm, svc, queue, bitSet, lock, main, adm, requests,
                   holds, outstanding, dupAlloc, orphaned>>

\* ReleasePort's save; on an error the bit is set again and the error is
\* collected (ReleaseForService goes on, and its caller only logs the error).
ReleaseSave(rep) ==
    LET r  == rec[rep]
        rn == r.rangeName
        me == <<"rec", rep>>
    IN
    /\ r.pc = "relsave"
    /\ \E ok \in SaveOutcomes(me, r.found) :
        /\ Charged(me, r.found, ok)
        /\ IF ok
           THEN /\ cm' = Written(r.found, rn, bitSet[rep][rn])
                /\ stale' = Readers \ {me}
                /\ Released(rep, rn, r.port)
                /\ holds' = [holds EXCEPT ![r.key] = @ \ {<<rn, r.port>>}]
                /\ rec' = [rec EXCEPT ![rep] = NextRelease(r)]
                /\ UNCHANGED bitSet
           ELSE /\ bitSet' = [bitSet EXCEPT ![rep][rn] = Set(@, r.port)]
                /\ stale' = stale \ {me}
                /\ rec' = [rec EXCEPT ![rep] = NextRelease([r EXCEPT !.failed = TRUE])]
                /\ UNCHANGED <<cm, holds, outstanding, dupAlloc>>
    /\ lock' = [lock EXCEPT ![rep][rn] = FALSE]
    /\ UNCHANGED <<config, up, svc, queue, main, adm, requests, orphaned>>

\* handleServiceDeletion after ReleaseForService: the finalizer is removed
\* from the object read and the object updated; an object being deleted is
\* then gone. A failed Update returns the error and the key is queued again.
RemoveFinalizer(rep) ==
    LET r == rec[rep]
        s == r.key
    IN
    /\ r.pc = "unfin"
    /\ rec' = [rec EXCEPT ![rep] = Finished(r)]
    /\ IF ~r.obj.fin
       THEN UNCHANGED <<svc, queue, faults>>
       ELSE \/ /\ svc[s] = r.obj
               /\ svc' = [svc EXCEPT ![s] =
                             IF r.obj.deleting THEN NoSvc ELSE [@ EXCEPT !.fin = FALSE]]
               /\ Notify(s)
               /\ UNCHANGED faults
            \/ /\ svc[s] # r.obj \/ faults < MaxFaults
               /\ faults' = IF svc[s] # r.obj THEN faults ELSE faults + 1
               /\ queue' = [queue EXCEPT ![rep] = @ \cup {s}]
               /\ UNCHANGED svc
    /\ UNCHANGED <<config, up, cm, stale, bitSet, lock, main, adm, requests,
                   holds, outstanding, dupAlloc, orphaned>>

\* ----------------------------------------------------------- specification

InitCommon ==
    /\ config \in Configs
    /\ faults = 0
    /\ cm = [exists |-> FALSE, Data |-> EmptyData]
    /\ stale = {}
    /\ svc \in InitialClusters
    /\ queue = [r \in Replicas |-> {}]
    /\ bitSet = [r \in Replicas |-> [n \in RangeNames |-> NilBitSet]]
    /\ lock = [r \in Replicas |-> [n \in RangeNames |-> FALSE]]
    /\ adm = [s \in Services |-> IdleAdm]
    /\ rec = [r \in Replicas |-> IdleRec]
    /\ requests = 0
    /\ holds = [s \in Services |-> {}]
    /\ outstanding = [r \in Replicas |-> [n \in RangeNames |-> {}]]
    /\ dupAlloc = FALSE
    /\ orphaned = {}

\* One replica, the leader-election flag off: it scans, serves admission and
\* runs the reconciler.
Init ==
    /\ InitCommon
    /\ up = {"r1"}
    /\ main = [r \in Replicas |-> IdleMain]

Next ==
    \/ \E s \in Services : Submit(s)
    \/ \E s \in Services : AllocEntry(s)
    \/ \E s \in Services : AllocPort(s)
    \/ \E s \in Services : AllocGet(s)
    \/ \E s \in Services : AllocSave(s)
    \/ \E s \in Services : AllocRollback(s)
    \/ \E s \in Services : AllocRbSave(s)
    \/ \E s \in Services : Delete(s)
    \/ \E r \in Replicas : Initialize(r)
    \/ \E r \in Replicas : Scan(r)
    \/ \E r \in Replicas : ScanGet(r)
    \/ \E r \in Replicas : ScanSave(r)
    \/ \E r \in Replicas : Reconcile(r)
    \/ \E r \in Replicas : handleServiceDeletion(r)
    \/ \E r \in Replicas : Release(r)
    \/ \E r \in Replicas : ReleaseGet(r)
    \/ \E r \in Replicas : ReleaseSave(r)
    \/ \E r \in Replicas : RemoveFinalizer(r)

Spec == Init /\ [][Next]_vars


\* Two replicas behind the webhook Service, an empty cluster: both start up
\* and serve admission; Services are created and updated, none is deleted.
\* The replicas of a Deployment run with the same flags: --leader-elect is
\* off (the default) on all or on on all.
InitMulti ==
    /\ InitCommon
    /\ up = Replicas
    /\ \A s \in Services : ~svc[s].exists
    /\ \E enableLeaderElection \in BOOLEAN :
          main = [r \in Replicas |->
                     [IdleMain EXCEPT !.enableLeaderElection = enableLeaderElection]]

NextMulti ==
    \/ \E s \in Services : Submit(s)
    \/ \E s \in Services : AllocEntry(s)
    \/ \E s \in Services : AllocPort(s)
    \/ \E s \in Services : AllocGet(s)
    \/ \E s \in Services : AllocSave(s)
    \/ \E s \in Services : AllocRollback(s)
    \/ \E s \in Services : AllocRbSave(s)
    \/ \E r \in Replicas : Initialize(r)
    \/ \E r \in Replicas : Scan(r)
    \/ \E r \in Replicas : Reconcile(r)

SpecMulti == InitMulti /\ [][NextMulti]_vars


\* --------------------------------------------------------------- startup
\* The process from reading its configuration file to the end of the scan,
\* over configurations an operator may write, a ConfigMap an earlier run may
\* have left, and the Services the cluster may hold.

\* validateConfig: TRUE when it returns nil. Every configuration here has
\* storage.retryDelay unset (LoadConfig then defaults it to "1s") or "1s",
\* which time.ParseDuration accepts.
validateConfig(c) ==
    /\ DOMAIN c.PortRanges # {}
    /\ c.DefaultRange # ""
    /\ c.DefaultRange \in DOMAIN c.PortRanges
    /\ \A name \in DOMAIN c.PortRanges :
          LET portRange == c.PortRanges[name] IN
          /\ ~(portRange.Start <= 0 \/ portRange.End <= 0)
          /\ ~(portRange.Start >= portRange.End)
          /\ ~(portRange.Start < 30000 \/ portRange.End > 32767)

\* The example of the README cut down to two ranges: development bound to
\* its namespace, default bound to every namespace ("*").
ReadmeConfig ==
    [PortRanges |->
        [development |-> [Start |-> 30000, End |-> 30001,
                          Namespaces |-> <<"dev">>, Labels |-> {}],
         default     |-> [Start |-> 30010, End |-> 30011,
                          Namespaces |-> <<"*">>, Labels |-> {}]],
     DefaultRange |-> "default",
     AllowOutsideRangePorts |-> FALSE]

\* Two ranges chosen by label, and a default range bound to namespace dev.
LabelConfig ==
    [PortRanges |->
        [web     |-> [Start |-> 30000, End |-> 30001,
                      Namespaces |-> << >>, Labels |-> {<<"tier", "web">>}],
         api     |-> [Start |-> 30002, End |-> 30003,
                      Namespaces |-> << >>, Labels |-> {<<"app", "api">>}],
         default |-> [Start |-> 30010, End |-> 30011,
                      Namespaces |-> <<"dev">>, Labels |-> {}]],
     DefaultRange |-> "default",
     AllowOutsideRangePorts |-> FALSE]

\* Two ranges that share ports 30001 and 30002.
OverlapConfig ==
    [PortRanges |->
        [dev     |-> [Start |-> 30000, End |-> 30002,
                      Namespaces |-> <<"dev">>, Labels |-> {}],
         default |-> [Start |-> 30001, End |-> 30003,
                      Namespaces |-> << >>, Labels |-> {}]],
     DefaultRange |-> "default",
     AllowOutsideRangePorts |-> FALSE]

\* Configuration files validateConfig has an error for: a range that is one
\* port, a range below and a range above the NodePort span, a default range
\* that is not configured.
InvalidConfigs ==
    {[DevConfig(FALSE) EXCEPT !.PortRanges.dev.End = 30000],
     [DevConfig(FALSE) EXCEPT !.PortRanges.dev.Start = 29999],
     [DevConfig(FALSE) EXCEPT !.PortRanges.default.End = 32768],
     [DevConfig(FALSE) EXCEPT !.DefaultRange = "missing"]}

StartupConfigs ==
    Configs \cup {ReadmeConfig, LabelConfig, OverlapConfig} \cup InvalidConfigs

\* The ConfigMap at startup: none, or one an earlier run wrote with one port
\* of one range taken, the range then being configured as it is now or one
\* port further up.
StoredMaps ==
    {[exists |-> FALSE, Data |-> EmptyData]}
    \cup {[exists |-> TRUE,
           Data |-> [EmptyData EXCEPT
                        ![n] = ToJSON(Set(NewBitSet(config.PortRanges[n].Start + d,
                                                    config.PortRanges[n].End + d),
                                          config.PortRanges[n].Start + d))]] :
             n \in (IF validateConfig(config) THEN RangeNames ELSE {}), d \in {0, 1}}

\* The Services in the cluster at startup: in namespace dev without labels
\* (any ports of 30000 and 30002, one port twice included, as a TCP and a UDP
\* port may be), in namespace default, and in namespace dev with labels.
ScanObjs ==
    {[ns |-> "dev", labels |-> {}, type |-> "NodePort", ports |-> ps] :
        ps \in SeqsUpTo({30000, 30002}, MaxPorts) \ {<< >>}}
    \cup {[ns |-> "default", labels |-> {}, type |-> "NodePort", ports |-> <<30010, 30063>>],
          [ns |-> "dev", labels |-> {<<"tier", "web">>, <<"app", "api">>},
           type |-> "NodePort", ports |-> <<30000>>],
          [ns |-> "dev", labels |-> {<<"tier", "web">>}, type |-> "NodePort",
           ports |-> <<30001>>]}

ScanClusters ==
    {[s \in Services |-> IF f[s] = NoObj THEN NoSvc ELSE Live(f[s])] :
        f \in [Services -> ScanObjs \cup {NoObj}]}

\* main: config.LoadConfig; an error ends the process before the port
\* manager is made.
LoadConfig(rep) ==
    /\ rep \in up
    /\ main[rep].pc = "load"
    /\ main' = [main EXCEPT ![rep] =
                   [@ EXCEPT !.pc = IF validateConfig(config) THEN "init" ELSE "exited"]]
    /\ UNCHANGED <<config, faults, up, cm, stale, svc, queue, bitSet, lock, adm, rec,
                   requests, holds, outstanding, dupAlloc, orphaned>>

InitStartup ==
    /\ config \in StartupConfigs
    /\ faults = 0
    /\ up = {"r1"}
    /\ cm \in StoredMaps
    /\ stale = {}
    /\ svc \in ScanClusters
    /\ queue = [r \in Replicas |-> {}]
    /\ bitSet = [r \in Replicas |-> [n \in RangeNames |-> NilBitSet]]
    /\ lock = [r \in Replicas |-> [n \in RangeNames |-> FALSE]]
    /\ main = [r \in Replicas |-> [IdleMain EXCEPT !.pc = "load"]]
    /\ adm = [s \in Services |-> IdleAdm]
    /\ rec = [r \in Replicas |-> IdleRec]
    /\ requests = 0
    /\ holds = [s \in Services |-> {}]
    /\ outstanding = [r \in Replicas |-> [n \in RangeNames |-> {}]]
    /\ dupAlloc = FALSE
    /\ orphaned = {}

NextStartup ==
    \/ \E r \in Replicas : LoadConfig(r)
    \/ \E r \in Replicas : Initialize(r)
    \/ \E r \in Replicas : Scan(r)
    \/ \E r \in Replicas : ScanGet(r)
    \/ \E r \in Replicas : ScanSave(r)

SpecStartup == InitStartup /\ [][NextStartup]_vars


\* -------------------------------------------------------------- properties

\* The ports whose bit is set in a BitSet, read off the words.
UsedPorts(bs) ==
    UNION {{bs.offset + (w - 1) * bitsPerWord + b : b \in bs.bits[w]} : w \in DOMAIN bs.bits}

\* The ports whose bit is set in a range's blob (none when there is no blob).
BlobPorts(blob) ==
    UNION {{blob.offset + (w - 1) * bitsPerWord + b : b \in blob.bits[w]} :
              w \in DOMAIN blob.bits}

\* No admission request is being handled, startup is over, and the
\* reconciler has nothing left to do.
Quiescent ==
    /\ \A s \in Services : adm[s].pc = "idle"
    /\ \A r \in up : /\ main[r].pc = "serving"
                     /\ rec[r].pc \in {"off", "idle"}
                     /\ queue[r] = {}

C2_AtMostOneWinner ==
    faults = 0 =>
        \A s \in Services : \A c \in adm[s].conc :
            ~(<<c[2], c[3]>> \in holds[s] /\ <<c[2], c[3]>> \in holds[c[1]])

\* Port p of range rn is in another Service's hands: given to it, or being
\* allocated for it.
TakenByOther(s, rn, p) ==
    \E u \in Services \ {s} :
        \/ <<rn, p>> \in holds[u]
        \/ <<rn, p>> \in Pairs(adm[u].results)
        \/ adm[u].pc \in {"get", "save"} /\ adm[u].rangeName = rn /\ adm[u].port = p

\* C3: when AllocateForService returns an error after one or more ports of
\* the call were allocated, and the store has answered no call with an error,
\* none of these ports is left set in the BitSet or in the persisted blob of
\* its range (unless another Service has taken the port in the meantime).
C3_AtomicTransaction ==
    [][\A s \in Services :
          (/\ adm[s].pc # "idle" /\ adm'[s].pc = "idle" /\ ~adm'[s].allowed
           /\ adm[s].results # << >>
           /\ faults' = 0)
          => \A r \in Range(adm[s].results) :
                \/ TakenByOther(s, r.RangeName, r.AllocatedPort)'
                \/ /\ r.AllocatedPort \notin UsedPorts(bitSet'[adm[s].rep][r.RangeName])
                   /\ r.AllocatedPort \notin BlobPorts(cm'.Data[r.RangeName])]_vars

\* Port p is a nodePort of a live NodePort Service that resolves to range rn.
LivePort(rn, p) ==
    \E s \in Services :
        /\ svc[s].exists /\ svc[s].type = "NodePort"
        /\ p \in Range(svc[s].ports)
        /\ rn \in GetPortRangeForService(config, Namespace(svc[s]), svc[s].labels)

\* C4: once the reconciler has nothing left to do (no request in flight, its
\* queue empty) and the store has answered no call with an error, every
\* in-range port that a deleted NodePort Service held is clear in the BitSet
\* of its range, unless it was given out again or a live Service carries it.
C4_DeletionReleases ==
    (faults = 0 /\ Quiescent) =>
        \A h \in orphaned :
            LivePort(h[1], h[2]) \/ \A r \in up : h[2] \notin UsedPorts(bitSet[r][h[1]])

\* C5: whenever no call is in progress on a range of a started replica and
\* the store has answered no call with an error, LoadBitSet of the range's
\* blob yields a BitSet with the used ports of the in-memory BitSet.
C5_CacheStoreAgreement ==
    faults = 0 =>
        \A r \in up : \A n \in RangeNames :
            (main[r].pc \in {"scan", "serving"} /\ ~lock[r][n]) =>
                \A bs \in LoadBitSet(cm, n, config.PortRanges[n].Start,
                                     config.PortRanges[n].End) :
                    UsedPorts(bs) = UsedPorts(bitSet[r][n])

\* C6: when ScanExistingServices returns nil, every nodePort of a listed
\* NodePort Service that lies inside the Service's range is set in the
\* BitSet of that range.
C6_ScanComplete ==
    [][\A r \in up :
          (main[r].pc = "scan" /\ main'[r].pc = "serving") =>
              \A i \in DOMAIN main[r].list :
                  LET o == main[r].list[i] IN
                  o.type = "NodePort" =>
                      \E n \in GetPortRangeForService(config, Namespace(o), o.labels) :
                          \A k \in DOMAIN o.ports :
                              Outside(config.PortRanges[n], o.ports[k])
                              \/ o.ports[k] \in UsedPorts(bitSet'[r][n])]_vars

\* C7: AllocateForService at a port entry with an explicit nodePort p inside
\* the resolved range, the bit of p set: the request is denied with PortInUse
\* in that step, nothing is stored, and the bit of p is still set.
C7_PortInUse ==
    [][\A s \in Services :
          LET t == adm[s] IN
          (/\ t.pc = "entry"
           /\ t.obj.ports[t.i] # 0
           /\ ~Outside(config.PortRanges[t.rangeName], t.obj.ports[t.i])
           /\ t.obj.ports[t.i] \in UsedPorts(bitSet[t.rep][t.rangeName])
           /\ adm'[s] # t)
          => /\ adm'[s].pc = "idle" /\ ~adm'[s].allowed /\ adm'[s].err = "PortInUse"
             /\ svc' = svc
             /\ t.obj.ports[t.i] \in UsedPorts(bitSet'[t.rep][t.rangeName])]_vars

C7_Witness ==
    \E s \in Services :
        /\ adm[s].pc = "idle" /\ ~adm[s].allowed /\ adm[s].err = "PortInUse"
        /\ adm[s].op = "CREATE" /\ ~svc[s].exists
        /\ 30000 \in UsedPorts(bitSet["r1"]["dev"])

\* C8: AllocatePort(0) on a range [a,b] whose used ports are a, ..., a+k-1:
\* with k < b-a+1 it takes a+k (the bit of a+k is set, nothing else changes
\* in the BitSet); with all b-a+1 ports set the call fails with RangeFull and
\* neither the BitSet nor the ConfigMap changes.
C8_FirstFit ==
    [][\A s \in Services :
          LET t    == adm[s]
              pr   == config.PortRanges[t.rangeName]
              used == UsedPorts(bitSet[t.rep][t.rangeName])
              k    == Cardinality(used)
          IN
          (/\ t.pc = "entry"
           /\ t.obj.ports[t.i] = 0
           /\ used = pr.Start .. (pr.Start + k - 1)
           /\ adm'[s] # t)
          => IF k < pr.End - pr.Start + 1
             THEN /\ adm'[s].pc = "get" /\ adm'[s].port = pr.Start + k
                  /\ UsedPorts(bitSet'[t.rep][t.rangeName]) = used \cup {pr.Start + k}
             ELSE /\ adm'[s].err = "RangeFull" /\ adm'[s].pc \in {"idle", "rollback"}
                  /\ ~adm'[s].allowed
                  /\ bitSet' = bitSet /\ cm' = cm]_vars

C8_Witness ==
    \E s \in Services :
        /\ faults = 0
        /\ adm[s].pc = "idle" /\ ~adm[s].allowed /\ adm[s].err = "RangeFull"
        /\ holds[3 - s] = {<<"dev", 30000>>, <<"dev", 30001>>}
        /\ cm.exists /\ BlobPorts(cm.Data["dev"]) = {30000, 30001}

\* C9: with AllowOutsideRangePorts true, AllocateForService at a port entry
\* with an explicit nodePort outside the resolved range does not fail on
\* account of that entry and changes neither the BitSets nor the ConfigMap.
C9_OutsideAllowed ==
    [][\A s \in Services :
          LET t == adm[s] IN
          (/\ config.AllowOutsideRangePorts
           /\ t.pc \in {"entry", "alloc"}
           /\ t.obj.ports[t.i] # 0
           /\ Outside(config.PortRanges[t.rangeName], t.obj.ports[t.i])
           /\ adm'[s] # t)
          => /\ adm'[s].err = ""
             /\ bitSet' = bitSet /\ cm' = cm]_vars

\* An object with an explicit nodePort outside the range dev.
AsksOutside(obj) ==
    \E i \in DOMAIN obj.ports :
        obj.ports[i] # 0 /\ Outside(config.PortRanges["dev"], obj.ports[i])

\* C10: with AllowOutsideRangePorts false, (Create) AllocateForService at a
\* port entry with an explicit nodePort outside the resolved range denies the
\* request with OutsideRange, and (Update) a request with no port to allocate
\* and an explicit nodePort outside the resolved range is denied by
\* handlePortValidation; nothing is stored.
C10_OutsideDenied ==
    [][~config.AllowOutsideRangePorts =>
          /\ \A s \in Services :
                LET t == adm[s] IN
                (/\ t.pc = "entry"
                 /\ t.obj.ports[t.i] # 0
                 /\ Outside(config.PortRanges[t.rangeName], t.obj.ports[t.i])
                 /\ adm'[s] # t)
                => /\ adm'[s].pc = "idle" /\ ~adm'[s].allowed
                   /\ adm'[s].err = "OutsideRange"
                   /\ svc' = svc
          /\ \A s \in Services, rep \in Replicas, obj \in ObjChoices :
                (/\ obj.type = "NodePort" /\ obj.ns = "dev"
                 /\ \A i \in DOMAIN obj.ports : obj.ports[i] # 0
                 /\ AsksOutside(obj)
                 /\ Handle(s, rep, obj, "UPDATE"))
                => /\ adm'[s].pc = "idle" /\ ~adm'[s].allowed
                   /\ adm'[s].err = "OutsideRange"
                   /\ svc' = svc]_vars

C10_Witness ==
    /\ ~config.AllowOutsideRangePorts
    /\ adm[1].pc = "idle" /\ adm[1].op = "UPDATE"
    /\ ~adm[1].allowed /\ adm[1].err = "OutsideRange"
    /\ adm[2].pc = "idle" /\ adm[2].op = "CREATE"
    /\ ~adm[2].allowed /\ adm[2].err = "OutsideRange"

\* ScanExistingServices is about to call MarkPortAsUsed on replica r with a
\* port inside the configured range and inside the domain of the BitSet.
Marking(r) ==
    LET m == main[r] IN
    /\ m.pc = "scan"
    /\ m.idx <= Len(m.list)
    /\ m.k >= 1
    /\ m.list[m.idx].type = "NodePort"
    /\ ~Outside(config.PortRanges[m.rangeName], m.list[m.idx].ports[m.k])
    /\ ~OutOfDomain(bitSet[r][m.rangeName], m.list[m.idx].ports[m.k])

\* C11: MarkPortAsUsed on a port of the range that is already set changes
\* neither the BitSet in memory nor the ConfigMap and goes on to the next port
\* without a store call; on a clear port it sets the bit and, the store
\* answering without an error, ends with the port set in memory and in the
\* blob. So N calls leave what one call leaves.
C11_IdempotentMarkUsed ==
    [][\A r \in up :
          LET m  == main[r]
              rn == m.rangeName
              p  == m.list[m.idx].ports[m.k]
          IN
          /\ (Marking(r) /\ main'[r] # m /\ p \in UsedPorts(bitSet[r][rn]))
                => /\ bitSet' = bitSet
                   /\ cm' = cm
                   /\ main'[r] = NextPort(m)
          /\ (Marking(r) /\ main'[r] # m /\ p \notin UsedPorts(bitSet[r][rn]))
                => /\ main'[r].pc = "scget"
                   /\ UsedPorts(bitSet'[r][rn]) = UsedPorts(bitSet[r][rn]) \cup {p}
                   /\ cm' = cm
          /\ (m.pc = "scsave" /\ main'[r] # m /\ faults' = faults)
                => /\ m.port \in UsedPorts(bitSet'[r][rn])
                   /\ m.port \in BlobPorts(cm'.Data[rn])
                   /\ main'[r].pc = "scan"
      ]_vars

\* The scan is past a Service that carries port 30002 twice, no store call
\* has failed, and 30002, which no earlier run had taken, is set in memory
\* and in the blob.
C11_Witness ==
    LET m == main["r1"] IN
    /\ m.pc = "scan" /\ m.idx = 2 /\ m.k = 0
    /\ faults = 0
    /\ m.list[1].ports[1] = 30002 /\ Len(m.list[1].ports) >= 2 /\ m.list[1].ports[2] = 30002
    /\ 30002 \in UsedPorts(bitSet["r1"][m.rangeName])
    /\ 30002 \in BlobPorts(cm.Data[m.rangeName])

\* Replica r's scan resolves the range of a Service whose namespace and
\* labels are those of the Service before it in the list, whose range the
\* scan resolved one invocation of GetPortRangeForService earlier.
ResolvesAgain(r) ==
    LET m == main[r] IN
    /\ m.pc = "scan"
    /\ m.idx >= 2 /\ m.idx <= Len(m.list)
    /\ m.k = 0
    /\ m.list[m.idx].type = "NodePort" /\ m.list[m.idx - 1].type = "NodePort"
    /\ Namespace(m.list[m.idx]) = Namespace(m.list[m.idx - 1])
    /\ m.list[m.idx].labels = m.list[m.idx - 1].labels
    /\ m.list[m.idx - 1].ports # << >>

\* C12: under one configuration, two invocations of GetPortRangeForService
\* with the same namespace and the same labels return the same range name:
\* the scan resolves the second of two such Services to the range it
\* resolved the first to.
C12_PolicyDeterminism ==
    [][\A r \in up :
          (ResolvesAgain(r) /\ main'[r].k = 1)
             => main'[r].rangeName = main[r].rangeName
      ]_vars

\* The ranges of the configuration whose label selector is not empty and
\* matches the labels, and those that list the namespace or "*".
LabelMatches(labels) ==
    {n \in RangeNames : /\ config.PortRanges[n].Labels # {}
                        /\ \A kv \in config.PortRanges[n].Labels : kv \in labels}

NamespaceMatches(namespace) ==
    {n \in RangeNames : \E i \in DOMAIN config.PortRanges[n].Namespaces :
                            config.PortRanges[n].Namespaces[i] \in {namespace, "*"}}

\* C13: the range GetPortRangeForService returns for a Service is one whose
\* non-empty label selector is a subset of the Service's labels when there is
\* such a range, whatever the namespace bindings; else one that matches the
\* namespace when there is one; else the default range. A range without
\* labels is returned only by the namespace step or as the default.
C13_PolicyPrecedence ==
    [][\A r \in up :
          LET m == main[r]
              o == m.list[m.idx]
              chosen == main'[r].rangeName
          IN
          (m.pc = "scan" /\ m.idx <= Len(m.list) /\ m.k = 0 /\ main'[r].k = 1)
             => IF LabelMatches(o.labels) # {}
                THEN chosen \in LabelMatches(o.labels)
                ELSE IF NamespaceMatches(Namespace(o)) # {}
                THEN chosen \in NamespaceMatches(Namespace(o))
                ELSE chosen = config.DefaultRange
      ]_vars

\* The scan has resolved a labelled Service of namespace dev to a range chosen
\* by label although another range is bound to namespace dev.
C13_Witness ==
    LET m == main["r1"] IN
    /\ m.pc = "scan" /\ m.idx <= Len(m.list) /\ m.k = 1
    /\ m.list[m.idx].ns = "dev"
    /\ m.list[m.idx].labels # {}
    /\ m.rangeName \in LabelMatches(m.list[m.idx].labels)
    /\ NamespaceMatches("dev") # {}
    /\ m.rangeName \notin NamespaceMatches("dev")

\* The ranges that list the namespace itself, and those that list "*".
LiteralMatches(namespace) ==
    {n \in RangeNames : \E i \in DOMAIN config.PortRanges[n].Namespaces :
                            config.PortRanges[n].Namespaces[i] = namespace}

WildcardMatches ==
    {n \in RangeNames : \E i \in DOMAIN config.PortRanges[n].Namespaces :
                            config.PortRanges[n].Namespaces[i] = "*"}

\* C14: when no label selector matches the Service, one range lists its
\* namespace literally and another lists "*", the resolver returns a range
\* that lists the namespace literally.
C14_ExplicitBeatsWildcard ==
    [][\A r \in up :
          LET m == main[r]
              o == m.list[m.idx]
          IN
          (/\ m.pc = "scan" /\ m.idx <= Len(m.list) /\ m.k = 0 /\ main'[r].k = 1
           /\ LabelMatches(o.labels) = {}
           /\ LiteralMatches(Namespace(o)) # {}
           /\ WildcardMatches \ LiteralMatches(Namespace(o)) # {})
             => main'[r].rangeName \in LiteralMatches(Namespace(o))
      ]_vars

\* Replica r is past Manager.Initialize.
Initialized(r) == main[r].pc \in {"scan", "scget", "scsave", "serving"}

\* C15: after Initialize the BitSet of every range has the configured start
\* as its offset and end - start + 1 as its size, whatever blob was stored
\* for the range.
C15_ConfigChangeDiscard ==
    \A r \in up : \A n \in RangeNames :
        Initialized(r)
           => /\ bitSet[r][n].offset = config.PortRanges[n].Start
              /\ bitSet[r][n].size = config.PortRanges[n].End - config.PortRanges[n].Start + 1

\* C16: a BitSet the allocator holds, built by Set and Clear over its range,
\* is what FromJSON decodes from what ToJSON encodes of it: same offset, same
\* size, same bits.
C16_RoundTrip ==
    \A r \in up : \A n \in RangeNames :
        Initialized(r) => FromJSON(ToJSON(bitSet[r][n])) = {bitSet[r][n]}

\* LoadConfig returned the configuration to replica r without an error.
Accepted(r) == main[r].pc = "init" \/ Initialized(r)

\* C17: in a configuration validateConfig accepts, no two ranges share a
\* port, every range has 30000 <= start < end <= 32767, and the default
\* range is one of the ranges.
C17_RejectsOverlap ==
    \A r \in up :
        Accepted(r)
           => /\ \A a, b \in RangeNames :
                    a # b => \/ config.PortRanges[a].End < config.PortRanges[b].Start
                             \/ config.PortRanges[b].End < config.PortRanges[a].Start
              /\ \A n \in RangeNames :
                    /\ 30000 <= config.PortRanges[n].Start
                    /\ config.PortRanges[n].Start < config.PortRanges[n].End
                    /\ config.PortRanges[n].End <= 32767
              /\ config.DefaultRange \in RangeNames

\* Port p is a nodePort of a NodePort Service other than s.
UsedByAnother(s, p) ==
    \E x \in Services \ {s} :
        /\ svc[x].exists /\ svc[x].type = "NodePort"
        /\ p \in Range(svc[x].ports)

\* C18: when the webhook admits a request that carries an explicit nodePort p
\* (an Update with all ports set, or a Create), p is inside the resolved
\* range unless AllowOutsideRangePorts is set, and p is not a nodePort of
\* another Service at that moment.
C18_UserPortValidated ==
    [][/\ \A s \in Services, rep \in Replicas, obj \in ObjChoices :
             (/\ obj.type = "NodePort"
              /\ \A i \in DOMAIN obj.ports : obj.ports[i] # 0
              /\ Handle(s, rep, obj, "UPDATE")
              /\ adm'[s].allowed)
             => \A i \in DOMAIN obj.ports :
                   /\ ~config.AllowOutsideRangePorts
                         => \E rn \in GetPortRangeForService(config, Namespace(obj), obj.labels) :
                               ~Outside(config.PortRanges[rn], obj.ports[i])
                   /\ ~UsedByAnother(s, obj.ports[i])
       /\ \A s \in Services :
             LET t == adm[s] IN
             (/\ t.pc # "idle" /\ t.op = "CREATE" /\ t.obj.type = "NodePort"
              /\ adm'[s].pc = "idle" /\ adm'[s].allowed)
             => \A i \in DOMAIN t.obj.ports :
                   t.obj.ports[i] # 0
                      => /\ ~config.AllowOutsideRangePorts
                               => ~Outside(config.PortRanges[t.rangeName], t.obj.ports[i])
                         /\ ~UsedByAnother(s, t.obj.ports[i])
      ]_vars

\* C19: in handleServiceDeletion, whatever ReleasePort does at a port (no
\* call for nodePort 0, an out-of-range error, a failed save), the loop of
\* ReleaseForService goes on to the next port, and after the last port, or
\* when ReleaseForService returns early, the removal of the finalizer follows:
\* the finalizer of the object read is removed by an Update, and only a
\* failure of that Update leaves it and queues the key again.
C19_DeletionNotBlocked ==
    [][\A rep \in up :
          LET r == rec[rep] IN
          /\ (r.pc = "hsd" /\ svc[r.key].exists /\ rec'[rep] # r)
                => \/ rec'[rep].pc = "unfin"
                   \/ rec'[rep].pc = "release" /\ rec'[rep].k = 1
          /\ (r.pc \in {"release", "relsave"} /\ rec'[rep] # r /\ rec'[rep].pc # "relget")
                => /\ rec'[rep].obj = r.obj
                   /\ IF r.k < Len(r.obj.ports)
                      THEN rec'[rep].pc = "release" /\ rec'[rep].k = r.k + 1
                      ELSE rec'[rep].pc = "unfin"
          /\ (r.pc = "release" /\ rec'[rep].pc = "relget")
                => r.obj.ports[r.k] # 0
          /\ (r.pc = "unfin" /\ r.obj.fin /\ rec'[rep] # r)
                => \/ ~svc'[r.key].exists
                   \/ ~svc'[r.key].fin
                   \/ svc' = svc /\ r.key \in queue'[rep]
      ]_vars

\* ReleaseForService is through with a Service of two ports that carries the
\* finalizer: a store call failed, the first port is still set in the BitSet,
\* the second was released after it, and the finalizer is about to be removed.
C19_Witness ==
    LET r == rec["r1"] IN
    /\ r.pc = "unfin"
    /\ r.obj.fin
    /\ Len(r.obj.ports) = 2
    /\ faults = 1
    /\ r.obj.ports[1] \in UsedPorts(bitSet["r1"][r.rangeName])
    /\ r.obj.ports[2] \notin UsedPorts(bitSet["r1"][r.rangeName])

\* The replicas on which the Service deletion reconciler is registered and
\* running.
Reconcilers == {r \in up : rec[r].pc # "off"}

\* C20: with several replicas, at every moment at most one replica has the
\* deletion reconciler registered and running, with the leader-election flag
\* on or off.
C20_SingleReconciler == Cardinality(Reconcilers) <= 1

\* C21: when no admission, scan or reconciliation is in flight and the store
\* has answered no call with an error, a port of a range is set in the
\* replica's BitSet of that range exactly when a live NodePort Service that
\* resolves to the range holds the port.
C21_CacheEqualsOwnership ==
    (Quiescent /\ faults = 0)
       => \A r \in up : \A n \in RangeNames :
             \A p \in config.PortRanges[n].Start .. config.PortRanges[n].End :
                 p \in UsedPorts(bitSet[r][n]) <=> LivePort(n, p)

\* storage.retryAttempts as LoadConfig defaults it.
RetryAttempts == 3

\* The writes one SaveBitSet makes: saveBitSetOnce calls UpdateObject and
\* CreateObject with one attempt; a conflict ends that inner backoff with its
\* timeout error, not with the conflict, and saveBitSetOnce formats it with
\* %v; RetryOnConflict around saveBitSetOnce sees no conflict and returns it.
SaveAttempts == 1

\* The saves that return at this step after getConfigMap found the
\* ConfigMap (their write is an Update), as <<replica, range>>.
UpdatesReturning ==
    {<<adm[s].rep, adm[s].rangeName>> :
        s \in {x \in Services : adm[x].pc = "save" /\ adm[x].found /\ adm'[x].pc # "save"}}
    \cup {<<adm[s].rep, adm[s].results[adm[s].j].RangeName>> :
        s \in {x \in Services : adm[x].pc = "rbsave" /\ adm[x].found /\ adm'[x].pc # "rbsave"}}
    \cup {<<r, rec[r].rangeName>> :
        r \in {x \in Replicas : rec[x].pc = "relsave" /\ rec[x].found /\ rec'[x].pc # "relsave"}}
    \cup {<<r, main[r].rangeName>> :
        r \in {x \in Replicas : main[x].pc = "scsave" /\ main[x].found /\ main'[x].pc # "scsave"}}

\* C22: a SaveBitSet whose Update meets no error other than conflicts, and
\* fewer conflicts than storage.retryAttempts, re-reads, writes again and
\* returns with the range's blob stored.
C22_RetryOnConflict ==
    [][\A sv \in UpdatesReturning :
          (faults' = faults /\ SaveAttempts < RetryAttempts)
             => /\ cm'.exists
                /\ cm'.Data[sv[2]] = ToJSON(bitSet[sv[1]][sv[2]])
      ]_vars

\* The saves that return at this step, as <<replica, range>>.
SavesReturning ==
    {<<adm[s].rep, adm[s].rangeName>> :
        s \in {x \in Services : adm[x].pc = "save" /\ adm'[x].pc # "save"}}
    \cup {<<adm[s].rep, adm[s].results[adm[s].j].RangeName>> :
        s \in {x \in Services : adm[x].pc = "rbsave" /\ adm'[x].pc # "rbsave"}}
    \cup {<<r, rec[r].rangeName>> :
        r \in {x \in Replicas : rec[x].pc = "relsave" /\ rec'[x].pc # "relsave"}}
    \cup {<<r, main[r].rangeName>> :
        r \in {x \in Replicas : main[x].pc = "scsave" /\ main'[x].pc # "scsave"}}

\* C23: the ConfigMap changes only by a SaveBitSet that returns, and that
\* save of range r stores the BitSet of r under r and leaves the entry of
\* every other range as it was last written, whether the save updated the
\* object or created it.
C23_SavePreservesOthers ==
    [][cm' # cm
          => \E sv \in SavesReturning :
                /\ cm'.exists
                /\ cm'.Data[sv[2]] = ToJSON(bitSet[sv[1]][sv[2]])
                /\ \A n \in RangeNames \ {sv[2]} : cm'.Data[n] = cm.Data[n]
      ]_vars

\* Both ranges have an entry with ports in the ConfigMap: the save of the
\* second left the entry of the first.
C23_Witness ==
    /\ cm.exists
    /\ BlobPorts(cm.Data["dev"]) # {}
    /\ BlobPorts(cm.Data["default"]) # {}
    /\ \E s \in Services : adm[s].op = "CREATE" /\ adm[s].allowed

\* One replica, an empty cluster, nothing deleted: the admissions are the
\* only callers of the ranges once the scan is over.
InitAdmission ==
    /\ InitCommon
    /\ up = {"r1"}
    /\ \A s \in Services : ~svc[s].exists
    /\ main = [r \in Replicas |-> IdleMain]

SpecAdmission == InitAdmission /\ [][NextMulti]_vars

\* C24: the AllocateForService calls on a range have the outcome of some
\* order of running them one after another. In such an order no other call
\* changes the BitSet during a call, so the ports one call gets for its
\* entries with nodePort 0, each the lowest clear port at its turn, ascend.
C24_Serializable ==
    [][\A s \in Services :
          LET t == adm[s]
              auto == {i \in DOMAIN t.results :
                          t.obj.ports[t.results[i].PortIndex + 1] = 0}
          IN (/\ t.pc = "save"
              /\ t.obj.ports[t.i] = 0
              /\ adm'[s] # t
              /\ t.port \in UsedPorts(bitSet'[t.rep][t.rangeName]))
             => \A i \in auto : t.results[i].AllocatedPort < t.port
      ]_vars

\* The threads of replica rep inside AllocatePort, ReleasePort or
\* MarkPortAsUsed on range n, past the first read of the BitSet and before
\* the save has returned and the rollback has been applied.
Inside(rep, n) ==
    {<<"adm", s>> : s \in {x \in Services :
        /\ adm[x].rep = rep
        /\ \/ adm[x].pc \in {"get", "save"} /\ adm[x].rangeName = n
           \/ adm[x].pc \in {"rbget", "rbsave"} /\ adm[x].results[adm[x].j].RangeName = n}}
    \cup {<<"rec", r>> : r \in {x \in {rep} :
        rec[x].pc \in {"relget", "relsave"} /\ rec[x].rangeName = n}}
    \cup {<<"main", r>> : r \in {x \in {rep} :
        main[x].pc \in {"scget", "scsave"} /\ main[x].rangeName = n}}

\* C25: on every replica at most one AllocatePort, ReleasePort or
\* MarkPortAsUsed is inside a given range at a time, from its change of the
\* BitSet until its save has returned and its rollback is applied; and an
\* IsPortUsed read of the range (AllocateForService at an explicit nodePort)
\* happens only while none is inside.
C25_MutualExclusion ==
    [][/\ \A rep \in up : \A n \in RangeNames : Cardinality(Inside(rep, n))' <= 1
       /\ \A s \in Services :
             LET t == adm[s] IN
             (/\ t.pc = "entry"
              /\ t.obj.ports[t.i] # 0
              /\ adm'[s] # t
              /\ adm'[s].pc = "alloc" \/ adm'[s].err = "PortInUse")
             => Inside(t.rep, t.rangeName) = {}
      ]_vars

\* One admission is inside AllocatePort on a range, saving, while another
\* admission on the same replica is at a port entry of the same range.
C25_Witness ==
    \E s, x \in Services :
        /\ s # x
        /\ adm[s].pc = "save"
        /\ adm[x].pc = "entry"
        /\ adm[x].rep = adm[s].rep
        /\ adm[x].rangeName = adm[s].rangeName
        /\ Inside(adm[s].rep, adm[s].rangeName) = {<<"adm", s>>}

\* One replica, an empty cluster, nothing deleted, and request contexts that
\* may be cancelled during the store save of AllocatePort.
NextCancel ==
    \/ \E s \in Services : Submit(s)
    \/ \E s \in Services : AllocEntry(s)
    \/ \E s \in Services : AllocPort(s)
    \/ \E s \in Services : AllocGet(s)
    \/ \E s \in Services : AllocSave(s)
    \/ \E s \in Services : Cancel(s)
    \/ \E s \in Services : AllocRollback(s)
    \/ \E s \in Services : AllocRbSave(s)
    \/ \E r \in Replicas : Initialize(r)
    \/ \E r \in Replicas : Scan(r)
    \/ \E r \in Replicas : Reconcile(r)

SpecCancel == InitAdmission /\ [][NextCancel]_vars

\* C26: when the request context is cancelled while AllocatePort is in its
\* store save, the port's bit is clear in memory when AllocatePort returns,
\* and the port is clear in the persisted blob of the range as well; and
\* when the cancelled call has returned, every port it had allocated before
\* is set in memory exactly when it is set in the blob.
C26_CancelDuringPersist ==
    [][\A s \in Services :
          LET t == adm[s] IN
          /\ Cancel(s)
                => /\ t.port \notin UsedPorts(bitSet'[t.rep][t.rangeName])
                   /\ t.port \notin BlobPorts(cm'.Data[t.rangeName])
          /\ ((t.cancelled \/ Cancel(s)) /\ adm'[s].pc = "idle")
                => \A i \in DOMAIN t.results :
                      LET r == t.results[i] IN
                      r.AllocatedPort \in UsedPorts(bitSet'[t.rep][r.RangeName])
                         <=> r.AllocatedPort \in BlobPorts(cm'.Data[r.RangeName])
      ]_vars

\* The write of thread t, which read the ConfigMap as found, returns an
\* error at this step: a conflict, or another error of the API server.
SaveFails(t, found) == faults' # faults \/ ~CanWrite(t, found)

\* C27: AllocatePort and MarkPortAsUsed set a bit that was clear, ReleasePort
\* clears a bit that was set; until the operation returns no one else changes
\* the BitSet of the range; and when the save returns an error the bit is
\* put back (so the BitSet is what it was before the call) and the caller
\* gets the error: the admission rolls back or is denied.
C27_UnchangedOnSaveFailure ==
    [][/\ \A s \in Services :
             LET t  == adm[s]
                 rn == IF t.pc \in {"get", "save"} THEN t.rangeName
                       ELSE t.results[t.j].RangeName
                 before == UsedPorts(bitSet[t.rep][rn])
                 after  == UsedPorts(bitSet'[t.rep][rn])
             IN
             /\ (t.pc \in {"entry", "alloc"} /\ adm'[s].pc = "get")
                   => /\ adm'[s].port \notin UsedPorts(bitSet[t.rep][t.rangeName])
                      /\ UsedPorts(bitSet'[t.rep][t.rangeName])
                            = UsedPorts(bitSet[t.rep][t.rangeName]) \cup {adm'[s].port}
             /\ (t.pc \in {"get", "save", "rbget", "rbsave"} /\ adm'[s] = t)
                   => bitSet'[t.rep][rn] = bitSet[t.rep][rn]
             /\ (t.pc = "save" /\ adm'[s] # t /\ SaveFails(<<"adm", s>>, t.found))
                   => /\ after = before \ {t.port}
                      /\ ~adm'[s].allowed
                      /\ adm'[s].pc \in {"rollback", "idle"}
             /\ (t.pc = "rbsave" /\ adm'[s] # t /\ SaveFails(<<"adm", s>>, t.found))
                   => after = before \cup {t.port}
       /\ \A r \in up :
             LET c == rec[r]
                 m == main[r]
             IN
             /\ (c.pc = "release" /\ rec'[r].pc = "relget")
                   => /\ rec'[r].port \in UsedPorts(bitSet[r][c.rangeName])
                      /\ UsedPorts(bitSet'[r][c.rangeName])
                            = UsedPorts(bitSet[r][c.rangeName]) \ {rec'[r].port}
             /\ (c.pc \in {"relget", "relsave"} /\ rec'[r] = c)
                   => bitSet'[r][c.rangeName] = bitSet[r][c.rangeName]
             /\ (c.pc = "relsave" /\ rec'[r] # c /\ SaveFails(<<"rec", r>>, c.found))
                   => UsedPorts(bitSet'[r][c.rangeName])
                         = UsedPorts(bitSet[r][c.rangeName]) \cup {c.port}
             /\ (m.pc = "scan" /\ main'[r].pc = "scget")
                   => /\ main'[r].port \notin UsedPorts(bitSet[r][m.rangeName])
                      /\ UsedPorts(bitSet'[r][m.rangeName])
                            = UsedPorts(bitSet[r][m.rangeName]) \cup {main'[r].port}
             /\ (m.pc \in {"scget", "scsave"} /\ main'[r] = m)
                   => bitSet'[r][m.rangeName] = bitSet[r][m.rangeName]
             /\ (m.pc = "scsave" /\ main'[r] # m /\ SaveFails(<<"main", r>>, m.found))
                   => UsedPorts(bitSet'[r][m.rangeName])
                         = UsedPorts(bitSet[r][m.rangeName]) \ {m.port}
      ]_vars

\* An admission was denied because its save failed, and no port is set in
\* any BitSet of the replica.
C27_Witness ==
    /\ \E s \in Services :
          adm[s].pc = "idle" /\ adm[s].err = "SaveFailed" /\ ~adm[s].allowed
    /\ main["r1"].pc = "serving"
    /\ \A n \in RangeNames : UsedPorts(bitSet["r1"][n]) = {}

\* A Service with one port entry more than the dev range has ports, all to
\* be allocated: the last AllocatePort finds the range full and the ports
\* allocated before are rolled back.
LongObj ==
    [ns |-> "dev", labels |-> {}, type |-> "NodePort", ports |-> [i \in 1..(MaxPorts + 1) |-> 0]]

SubmitLong(s) == \E rep \in Replicas : Handle(s, rep, LongObj, "CREATE")

NextOrder ==
    \/ \E s \in Services : SubmitLong(s)
    \/ \E s \in Services : AllocEntry(s)
    \/ \E s \in Services : AllocGet(s)
    \/ \E s \in Services : AllocSave(s)
    \/ \E s \in Services : AllocRollback(s)
    \/ \E s \in Services : AllocRbSave(s)
    \/ \E r \in Replicas : Initialize(r)
    \/ \E r \in Replicas : Scan(r)

SpecOrder == InitAdmission /\ [][NextOrder]_vars

\* C28: within one AllocateForService call result i is for an earlier port
\* entry than result j when i < j, and each entry is taken up after the
\* results before it; the rollback starts at the result allocated last and
\* goes back one result at a time.
C28_TransactionOrdering ==
    [][\A s \in Services :
          LET t == adm[s]
              u == adm'[s]
          IN
          /\ \A i, j \in DOMAIN u.results :
                i < j => u.results[i].PortIndex < u.results[j].PortIndex
          /\ \A i \in DOMAIN u.results :
                u.pc \in {"entry", "alloc", "get", "save"} => u.results[i].PortIndex < u.i - 1
          /\ (u.pc = "rollback" /\ t.pc \notin {"rollback", "rbget", "rbsave"})
                => u.j = Len(u.results)
          /\ (u.pc = "rollback" /\ t.pc \in {"rollback", "rbsave"} /\ u.j # t.j)
                => u.j = t.j - 1
      ]_vars

\* C29: an admission request is handled only by a replica that is serving;
\* a replica starts serving only from a scan that has gone through every
\* Service listed, and the scan starts only from an Initialize that loaded
\* every range; a process that exited on an error of either stays exited.
C29_ScanPrecedesAdmission ==
    [][/\ \A s \in Services, rep \in Replicas, obj \in ObjChoices, op \in {"CREATE", "UPDATE"} :
             Handle(s, rep, obj, op) => main[rep].pc = "serving"
       /\ \A r \in Replicas :
             /\ (main'[r].pc = "serving" /\ main[r].pc # "serving")
                   => main[r].pc = "scan" /\ main[r].idx > Len(main[r].list)
             /\ (main'[r].pc = "scan" /\ main[r].pc \notin {"scan", "scget", "scsave"})
                   => /\ main[r].pc = "init"
                      /\ \A n \in RangeNames : bitSet'[r][n] # NilBitSet
             /\ main[r].pc = "exited" => main'[r].pc = "exited"
      ]_vars

\* A request has been handled by the replica, which is serving after a scan
\* that marked the ports of the Service found in the cluster.
C29_Witness ==
    /\ requests > 0
    /\ main["r1"].pc = "serving"
    /\ \E s \in Services : adm[s].op # ""
    /\ {30010, 30063} \subseteq UsedPorts(bitSet["r1"]["default"])

\* A user changes the type of Service s: the Mutator lets a Service that is
\* not of type NodePort through untouched, and the API server stores it with
\* its nodePorts dropped.
Retype(s) ==
    \E rep \in Replicas :
        LET o   == svc[s]
            obj == [ns |-> o.ns, labels |-> o.labels, type |-> "ClusterIP",
                    ports |-> [i \in DOMAIN o.ports |-> 0]]
        IN
        /\ requests < MaxRequests
        /\ adm[s].pc = "idle"
        /\ rep \in up
        /\ main[rep].pc = "serving"
        /\ o.exists /\ ~o.deleting /\ o.type = "NodePort"
        /\ Step(s, Succeed([IdleAdm EXCEPT !.rep = rep, !.op = "UPDATE", !.obj = obj]))
        /\ requests' = requests + 1
        /\ UNCHANGED <<config, faults, up, cm, stale, bitSet, lock, main, rec,
                       outstanding, dupAlloc>>

\* One replica, an empty cluster: Services are created, updated (their type
\* too) and deleted while the reconciler runs.
NextRetype ==
    \/ \E s \in Services : Submit(s)
    \/ \E s \in Services : Retype(s)
    \/ \E s \in Services : AllocEntry(s)
    \/ \E s \in Services : AllocPort(s)
    \/ \E s \in Services : AllocGet(s)
    \/ \E s \in Services : AllocSave(s)
    \/ \E s \in Services : AllocRollback(s)
    \/ \E s \in Services : AllocRbSave(s)
    \/ \E s \in Services : Delete(s)
    \/ \E r \in Replicas : Initialize(r)
    \/ \E r \in Replicas : Scan(r)
    \/ \E r \in Replicas : Reconcile(r)
    \/ \E r \in Replicas : handleServiceDeletion(r)
    \/ \E r \in Replicas : Release(r)
    \/ \E r \in Replicas : ReleaseGet(r)
    \/ \E r \in Replicas : ReleaseSave(r)
    \/ \E r \in Replicas : RemoveFinalizer(r)

SpecRetype == InitAdmission /\ [][NextRetype]_vars

\* C30: the finalizer is put only on a NodePort Service that is not being
\* deleted and does not carry it; the finalizer of a Service being deleted is
\* removed only by a reconciler that is past ReleaseForService for the
\* object it read of that Service.
C30_FinalizerProtocol ==
    [][\A s \in Services :
          /\ (svc'[s].exists /\ svc'[s].fin /\ ~(svc[s].exists /\ svc[s].fin))
                => /\ svc[s].exists /\ ~svc[s].deleting /\ svc[s].type = "NodePort"
                   /\ svc'[s] = [svc[s] EXCEPT !.fin = TRUE]
          /\ (svc[s].exists /\ svc[s].deleting /\ svc[s].fin /\ svc'[s] # svc[s])
                => \E r \in up : /\ rec[r].pc = "unfin"
                                 /\ rec[r].key = s
                                 /\ rec[r].obj = svc[s]
                                 /\ rec[r].obj.type = "NodePort"
      ]_vars

\* C31: an UPDATE of a NodePort Service whose every entry has a nodePort set
\* is answered at once, admitted or denied, with every BitSet and the
\* ConfigMap as they were and no port given to the Service; a request for a
\* Service that is not of type NodePort is admitted at once, the object
\* stored as submitted, with the same state unchanged.
C31_ValidationOnlyUpdate ==
    [][\A s \in Services, rep \in Replicas, obj \in ObjChoices, op \in {"CREATE", "UPDATE"} :
          LET validation == /\ obj.type = "NodePort"
                            /\ op = "UPDATE"
                            /\ \A i \in DOMAIN obj.ports : obj.ports[i] # 0
          IN (Handle(s, rep, obj, op) /\ (validation \/ obj.type # "NodePort"))
                => /\ adm'[s].pc = "idle"
                   /\ bitSet' = bitSet
                   /\ cm' = cm
                   /\ lock' = lock
                   /\ holds' = holds
                   /\ outstanding' = outstanding
                   /\ svc'[s] # svc[s] => svc'[s].ports = obj.ports
                   /\ obj.type # "NodePort" => adm'[s].allowed /\ adm'[s].err = ""
      ]_vars

\* An UPDATE to the one port 30005, outside the range of the Service, has
\* been admitted by handlePortValidation: the Service is stored with it and
\* the BitSet still holds the port of the CREATE alone.
C31_Witness ==
    \E s \in Services :
        /\ adm[s].pc = "idle"
        /\ adm[s].op = "UPDATE"
        /\ adm[s].allowed
        /\ svc[s].exists
        /\ svc[s].ports = <<30005>>
        /\ \E r \in up, n \in RangeNames : UsedPorts(bitSet[r][n]) = {30000}

\* C32: the answer to an admitted allocation has exactly one patch for each
\* entry submitted with nodePort 0, at the index of the entry and with the
\* port of the result of that entry, a port of the range (the one of the
\* last entry is set in the BitSet as the call returns), no patch for an
\* entry with a nodePort, and one warning per entry; the object is stored
\* with those patches applied. A denied request is answered with Allowed
\* false, code 403 and no patch, and nothing is stored or held for it.
C32_PatchGeneration ==
    [][\A s \in Services :
          LET t    == adm[s]
              rn   == t.rangeName
              pr   == config.PortRanges[rn]
              fin  == Succeed([t EXCEPT !.results = Append(@,
                          [PortIndex |-> t.i - 1, AllocatedPort |-> t.port, RangeName |-> rn])])
              resp == Response(fin)
              zero == {i \in DOMAIN t.obj.ports : t.obj.ports[i] = 0}
          IN
          /\ (t.pc = "save" /\ adm'[s].pc = "idle" /\ adm'[s].allowed)
                => /\ resp.Allowed
                   /\ {pt[1] : pt \in resp.Patch} = {i - 1 : i \in zero}
                   /\ Cardinality(resp.Patch) = Cardinality(zero)
                   /\ \A pt \in resp.Patch :
                         /\ \E k \in DOMAIN fin.results :
                               /\ fin.results[k].PortIndex = pt[1]
                               /\ fin.results[k].AllocatedPort = pt[2]
                         /\ pt[2] \in pr.Start .. pr.End
                   /\ t.port \in UsedPorts(bitSet'[t.rep][rn])
                   /\ Len(resp.Warnings) = Len(t.obj.ports)
                   /\ \A k \in DOMAIN fin.results : fin.results[k].PortIndex = k - 1
                   /\ holds'[s] = holds[s] \cup Pairs(fin.results)
                   /\ svc'[s] # svc[s]
                         => svc'[s].ports =
                               [i \in DOMAIN t.obj.ports |->
                                   IF i \in zero
                                   THEN (CHOOSE pt \in resp.Patch : pt[1] = i - 1)[2]
                                   ELSE t.obj.ports[i]]
          /\ (adm'[s].pc = "idle" /\ adm'[s] # t /\ ~adm'[s].allowed)
                => /\ Response(adm'[s]) =
                         [Allowed |-> FALSE, Code |-> 403, Patch |-> {}, Warnings |-> << >>]
                   /\ svc'[s] = svc[s]
                   /\ holds'[s] = holds[s]
      ]_vars

\* A CREATE with two entries has been admitted: the Service is stored with
\* 30000 patched into its first entry and holds both ports.
C32_Witness ==
    \E s \in Services :
        /\ adm[s].pc = "idle"
        /\ adm[s].op = "CREATE"
        /\ adm[s].allowed
        /\ requests = 1
        /\ svc[s].exists
        /\ svc[s].ports = <<30000, 30001>>
        /\ holds[s] = {<<"dev", 30000>>, <<"dev", 30001>>}

\* C33: on every BitSet a replica holds, FindFirstClear finds the smallest
\* port of the BitSet's domain [offset, offset + size - 1] whose bit is 0,
\* and finds none exactly when every port of the domain is set; the port it
\* returns is never outside the domain, whose size need not be a multiple of
\* the word size.
C33_SmallestFreePort ==
    \A r \in up : \A n \in RangeNames :
        LET bs   == bitSet[r][n]
            free == (bs.offset .. (bs.offset + bs.size - 1)) \ UsedPorts(bs)
            f    == FindFirstClear(bs)
        IN bs # NilBitSet
              => IF free = {} THEN ~f.found
                 ELSE /\ f.found
                      /\ f.port \in free
                      /\ \A p \in free : f.port <= p

\* The range dev is full and FindFirstClear finds nothing in it, while in
\* the range default, of 54 ports, the scan has set the first and the last
\* port and FindFirstClear finds the second.
C33_Witness ==
    \E r \in up :
        /\ UsedPorts(bitSet[r]["dev"]) = {30000, 30001}
        /\ ~FindFirstClear(bitSet[r]["dev"]).found
        /\ bitSet[r]["default"].size % bitsPerWord # 0
        /\ UsedPorts(bitSet[r]["default"]) = {30010, 30063}
        /\ FindFirstClear(bitSet[r]["default"]) = [port |-> 30011, found |-> TRUE]

\* C34: ReleasePort called by ReleaseForService on a port of the configured
\* range whose bit is 0 returns no error, changes no BitSet and starts no
\* store write; on a port whose bit is 1 it clears that bit alone and goes
\* on to save, and once the save succeeded the bit is 0 in the BitSet and in
\* the stored blob, so that the port is free to allocate, and no error is
\* returned; on a port outside the configured range it returns an error
\* and changes neither the BitSet nor the ConfigMap.
C34_ReleaseSemantics ==
    [][\A rep \in up :
          LET r  == rec[rep]
              rn == r.rangeName
              pr == config.PortRanges[rn]
              bs == bitSet[rep][rn]
              p  == r.obj.ports[r.k]
          IN
          /\ (r.pc = "release" /\ p # 0 /\ rec'[rep] # r)
                => IF Outside(pr, p)
                   THEN /\ rec'[rep].failed
                        /\ rec'[rep].pc \in {"release", "unfin"}
                        /\ bitSet' = bitSet /\ cm' = cm
                   ELSE IF p \notin UsedPorts(bs)
                   THEN /\ rec'[rep].failed = r.failed
                        /\ rec'[rep].pc \in {"release", "unfin"}
                        /\ bitSet' = bitSet /\ cm' = cm
                   ELSE /\ rec'[rep].pc = "relget"
                        /\ rec'[rep].failed = r.failed
                        /\ UsedPorts(bitSet'[rep][rn]) = UsedPorts(bs) \ {p}
                        /\ \A n \in RangeNames \ {rn} : bitSet'[rep][n] = bitSet[rep][n]
          /\ (r.pc = "relsave" /\ rec'[rep] # r /\ cm' # cm)
                => /\ rec'[rep].failed = r.failed
                   /\ r.port \notin UsedPorts(bitSet'[rep][rn])
                   /\ r.port \notin BlobPorts(cm'.Data[rn])
                   /\ FindFirstClear(bitSet'[rep][rn]).found
                   /\ FindFirstClear(bitSet'[rep][rn]).port <= r.port
                   /\ ~IsPortUsed(bitSet'[rep][rn], r.port)
      ]_vars

\* A port taken by one Service, released and stored as free when the Service
\* was deleted, has been given to a later CREATE.
C34_Witness ==
    /\ faults = 0
    /\ ~svc[1].exists
    /\ rec["r1"].pc = "idle"
    /\ svc[2].exists
    /\ svc[2].ports = <<30000>>
    /\ holds[2] = {<<"dev", 30000>>}
    /\ adm[2].op = "CREATE" /\ adm[2].allowed
    /\ adm[1].op = "CREATE" /\ adm[1].allowed
    /\ BlobPorts(cm.Data["dev"]) = {30000}

\* C35: when a replica denies an explicit request for port p with PortInUse,
\* p is set in the stored blob of the range at that moment, or at the least
\* p is held: by a Service of the cluster, by the results of a request, or
\* by an AllocatePort that is saving it.
C35_PortInUseCorrect ==
    [][\A s \in Services :
          LET t == adm[s]
              p == IF t.pc = "entry" THEN t.obj.ports[t.i] ELSE t.port
          IN (/\ t.pc \in {"entry", "alloc"}
              /\ p # 0
              /\ adm'[s] # t
              /\ adm'[s].err = "PortInUse")
                => \/ cm.exists /\ p \in BlobPorts(cm.Data[t.rangeName])
                   \/ \E x \in Services :
                         \/ <<t.rangeName, p>> \in holds[x] \cup Pairs(adm[x].results)
                         \/ adm[x].pc \in {"get", "save"} /\ adm[x].port = p
                         \/ svc[x].exists /\ p \in Range(svc[x].ports)
      ]_vars

\* C36: a successful save changes, in the stored blob of the range, the bit
\* of the port just allocated, marked or released and no other: after the
\* save of an AllocatePort or MarkPortAsUsed the blob holds the ports it
\* held and that port; after the save of a ReleasePort, the ports it held
\* but that port.
C36_NoLostUpdate ==
    [][/\ \A s \in Services :
             LET t  == adm[s]
                 rn == IF t.pc = "save" THEN t.rangeName ELSE t.results[t.j].RangeName
             IN (t.pc \in {"save", "rbsave"} /\ adm'[s] # t /\ cm' # cm)
                   => BlobPorts(cm'.Data[rn]) =
                         IF t.pc = "save" THEN BlobPorts(cm.Data[rn]) \cup {t.port}
                         ELSE BlobPorts(cm.Data[rn]) \ {t.port}
       /\ \A r \in up :
             /\ (main[r].pc = "scsave" /\ main'[r] # main[r] /\ cm' # cm)
                   => BlobPorts(cm'.Data[main[r].rangeName]) =
                         BlobPorts(cm.Data[main[r].rangeName]) \cup {main[r].port}
             /\ (rec[r].pc = "relsave" /\ rec'[r] # rec[r] /\ cm' # cm)
                   => BlobPorts(cm'.Data[rec[r].rangeName]) =
                         BlobPorts(cm.Data[rec[r].rangeName]) \ {rec[r].port}
      ]_vars

\* C37: an UPDATE that adds an entry with nodePort 0 to a Service holding
\* port p by its own CREATE is not denied at the entry that names p: the
\* call goes on to the next entry or returns admitted.
C37_UpdateAddsPort ==
    [][\A s \in Services :
          LET t == adm[s]
              p == t.obj.ports[t.i]
          IN (/\ t.op = "UPDATE"
              /\ t.pc = "entry"
              /\ \E i \in DOMAIN t.obj.ports : t.obj.ports[i] = 0
              /\ p # 0
              /\ ~Outside(config.PortRanges[t.rangeName], p)
              /\ svc[s].exists
              /\ p \in Range(svc[s].ports)
              /\ <<t.rangeName, p>> \in holds[s]
              /\ adm'[s] # t)
                => ~(adm'[s].pc = "idle" /\ ~adm'[s].allowed)
      ]_vars

====
